---- MODULE Spec2Model ----
(***************************************************************************)
(* Model of the accbooks accounting application: the GST computation of    *)
(* invoice line items and expenses, the invoice and expense save handlers  *)
(* with every storage call as its own step, the numeric(15,2) columns of   *)
(* the store, the Profit & Loss and GST summary pages with their period    *)
(* navigation, the chart of accounts and the creation of a company.        *)
(*                                                                         *)
(* Numbers.  Form amounts (quantity, rate, amount_before_gst) are entered  *)
(* with two decimals (step="0.01") and are held here as integers in        *)
(* hundredths; GST rates are whole percents.  A computed amount is held    *)
(* exactly, as an integer count of units of 1/Cent of a cent, which is     *)
(* fine enough for quantity x rate x gst / 100 / 2 to be an integer.  The  *)
(* code computes in IEEE doubles: a double differs from the exact value by *)
(* a relative error near 1e-16, which can change what the store keeps only *)
(* when the exact value lies exactly half way between two cents.  The      *)
(* store's rounding therefore yields either neighbour on an exact tie.     *)
(***************************************************************************)
EXTENDS Integers, Sequences, FiniteSets, TLC

VARIABLES
    invoices,       \* table invoices: sequence of rows, row i has id i
    invoice_items,  \* table invoice_items: the rows of invoice i, in invoice_items[i]
    expenses,       \* table expenses: sequence of rows, row i has id i
    invForm,        \* CreateEditInvoice components: session -> state
    expForm,        \* CreateEditExpense components: session -> state
    accounts,       \* table accounts: sequence of rows, row i has id i
    report,         \* ProfitLossReport component state and its fetches in flight
    calc,           \* a pure computation: its input and, once applied, output
    gstReport,      \* GSTReport component state and its fetches in flight
    chart,          \* ChartOfAccounts components: session -> state
    company_profiles, \* table company_profiles: sequence of rows
    provider,       \* CompanyProvider of a signing-up user: createCompanyProfile
    invoiceList,    \* Invoices components (the list page): session -> state
    auth            \* AuthProvider and CompanyProvider of one browser

vars == <<invoices, invoice_items, expenses, accounts, invForm, expForm, report, calc,
          gstReport, chart, company_profiles, provider, invoiceList, auth>>

(***************************************************************************)
(* Scales and bounds                                                       *)
(***************************************************************************)
\* units per cent of a computed amount: 100 (quantity x rate is in 1/100
\* cent) x 100 (percent) x 2 (the CGST/SGST halves)
Cent == 100 * 100 * 2

\* largest integer of TLC
IntMax == 2^30 + (2^30 - 1)

MaxInvoices == 1         \* invoices created while two sessions save
MaxExpenses == 2         \* expenses created
MaxReportInvoices == 2   \* invoices in the tables the report is run on
MaxReportExpenses == 1   \* expenses in the tables the report is run on
MaxRuns == 2             \* fetches of a report page in flight at once
MaxGstExpenses == 2      \* expenses in the tables the GST summary is run on

\* a value of the form, in hundredths, as an exact computed amount
FromHundredths(x) == x * Cent

(***************************************************************************)
(* The store: a numeric(15,2) column                                       *)
(***************************************************************************)
\* a numeric(15,2) column rounds to two decimals, half away from zero; on an
\* exact tie the double the client sends lies on either side
Numeric2(x) ==
    IF x % Cent = Cent \div 2
    THEN {x \div Cent, x \div Cent + 1}
    ELSE {(x + Cent \div 2) \div Cent}

\* the exact rounding, for stating what a tie-free value is stored as
Round2(x) == (x + Cent \div 2) \div Cent

(***************************************************************************)
(* GST of an invoice line item (CreateEditInvoice.onSubmit, the items map) *)
(***************************************************************************)
\* (x * rate) / 100 on an exact amount x, a multiple of 100 units
Percent(x, rate) == (x \div 100) * rate

\* the value of the product Select of an item: the id of a row of
\* products_services, or the empty string of 'Enter Manually'
Product == "product"
EnterManually == ""

\* product_service_id uuid REFERENCES products_services(id): the values the
\* column takes from a request, a string being cast to uuid
UuidAccepted(value) == value = Product

ComputeItemBothGroups(item, place_of_supply_type) ==
    LET itemTotal == item.quantity * item.rate * (Cent \div 100)
        gstAmount == Percent(itemTotal, item.gst_rate_percentage)
    IN  [product_service_id |-> item.product_service_id,
         quantity |-> item.quantity,
         rate |-> item.rate,
         gst_rate_percentage |-> item.gst_rate_percentage,
         item_total_amount |-> itemTotal,
         cgst_amount |-> gstAmount \div 2,
         sgst_amount |-> gstAmount \div 2,
         igst_amount |-> IF place_of_supply_type = "Inter-State" THEN gstAmount ELSE 0,
         item_gst_total |-> gstAmount]

ComputeItemSwapped(item, place_of_supply_type) ==
    LET itemTotal == item.quantity * item.rate * (Cent \div 100)
        gstAmount == Percent(itemTotal, item.gst_rate_percentage)
    IN  [product_service_id |-> item.product_service_id,
         quantity |-> item.quantity,
         rate |-> item.rate,
         gst_rate_percentage |-> item.gst_rate_percentage,
         item_total_amount |-> itemTotal,
         cgst_amount |-> IF place_of_supply_type = "Inter-State" THEN gstAmount \div 2 ELSE 0,
         sgst_amount |-> IF place_of_supply_type = "Inter-State" THEN gstAmount \div 2 ELSE 0,
         igst_amount |-> IF place_of_supply_type = "Intra-State" THEN gstAmount ELSE 0,
         item_gst_total |-> gstAmount]

ComputeItem(item, place_of_supply_type) ==
    LET itemTotal == item.quantity * item.rate * (Cent \div 100)
        gstAmount == Percent(itemTotal, item.gst_rate_percentage)
    IN  [product_service_id |-> item.product_service_id,
         quantity |-> item.quantity,
         rate |-> item.rate,
         gst_rate_percentage |-> item.gst_rate_percentage,
         item_total_amount |-> itemTotal,
         cgst_amount |-> IF place_of_supply_type = "Intra-State" THEN gstAmount \div 2 ELSE 0,
         sgst_amount |-> IF place_of_supply_type = "Intra-State" THEN gstAmount \div 2 ELSE 0,
         igst_amount |-> IF place_of_supply_type = "Inter-State" THEN gstAmount ELSE 0,
         item_gst_total |-> gstAmount]

\* data.items.map(...)
ComputeItems(items, place_of_supply_type) ==
    [i \in 1..Len(items) |-> ComputeItem(items[i], place_of_supply_type)]

\* items.reduce((sum, item) => sum + item[field], 0)
RECURSIVE SumField(_, _)
SumField(rows, field) ==
    IF rows = <<>> THEN 0
    ELSE SumField(SubSeq(rows, 1, Len(rows) - 1), field) + rows[Len(rows)][field]

subTotal(items) == SumField(items, "item_total_amount")
totalGst(items) == SumField(items, "item_gst_total")
totalAmount(items) == subTotal(items) + totalGst(items)

(***************************************************************************)
(* GST of an expense (CreateEditExpense.calculateGSTAmounts)               *)
(***************************************************************************)
calculateGSTAmountsNoNA(amountBeforeGST, gstRate, supplyType) ==
    LET gstAmount == Percent(amountBeforeGST, gstRate)
    IN  IF supplyType = "Intra-State"
        THEN [gstPaidAmount |-> gstAmount,
              cgstInputCredit |-> gstAmount \div 2,
              sgstInputCredit |-> gstAmount \div 2,
              igstInputCredit |-> 0,
              totalAmount |-> amountBeforeGST + gstAmount]
        ELSE [gstPaidAmount |-> gstAmount,
              cgstInputCredit |-> 0,
              sgstInputCredit |-> 0,
              igstInputCredit |-> gstAmount,
              totalAmount |-> amountBeforeGST + gstAmount]

calculateGSTAmountsLostHalf(amountBeforeGST, gstRate, supplyType) ==
    LET gstAmount == Percent(amountBeforeGST, gstRate)
    IN  IF supplyType = "Not Applicable"
        THEN [gstPaidAmount |-> 0,
              cgstInputCredit |-> 0,
              sgstInputCredit |-> 0,
              igstInputCredit |-> 0,
              totalAmount |-> amountBeforeGST]
        ELSE IF supplyType = "Intra-State"
        THEN [gstPaidAmount |-> gstAmount,
              cgstInputCredit |-> gstAmount \div 2,
              sgstInputCredit |-> 0,
              igstInputCredit |-> 0,
              totalAmount |-> amountBeforeGST + gstAmount]
        ELSE [gstPaidAmount |-> gstAmount,
              cgstInputCredit |-> 0,
              sgstInputCredit |-> 0,
              igstInputCredit |-> gstAmount,
              totalAmount |-> amountBeforeGST + gstAmount]

calculateGSTAmounts(amountBeforeGST, gstRate, supplyType) ==
    LET gstAmount == Percent(amountBeforeGST, gstRate)
    IN  IF supplyType = "Not Applicable"
        THEN [gstPaidAmount |-> 0,
              cgstInputCredit |-> 0,
              sgstInputCredit |-> 0,
              igstInputCredit |-> 0,
              totalAmount |-> amountBeforeGST]
        ELSE IF supplyType = "Intra-State"
        THEN [gstPaidAmount |-> gstAmount,
              cgstInputCredit |-> gstAmount \div 2,
              sgstInputCredit |-> gstAmount \div 2,
              igstInputCredit |-> 0,
              totalAmount |-> amountBeforeGST + gstAmount]
        ELSE [gstPaidAmount |-> gstAmount,
              cgstInputCredit |-> 0,
              sgstInputCredit |-> 0,
              igstInputCredit |-> gstAmount,
              totalAmount |-> amountBeforeGST + gstAmount]

(***************************************************************************)
(* Inputs of the forms                                                     *)
(***************************************************************************)
\* quantity: z.number().min(0.01); 0.01, 0.12, 2.00
Quantities == {1, 12, 200}
\* rate: z.number().min(0); 0, 0.20, 100.00
Rates == {0, 20, 10000}
\* gst rates: z.number().min(0).max(28)
GstRates == {0, 5, 18, 28}
\* place_of_supply_type: z.enum
InvoiceSupplyTypes == {"Intra-State", "Inter-State"}
\* place_of_supply_type_for_purchase: z.enum
ExpenseSupplyTypes == {"Intra-State", "Inter-State", "Not Applicable"}
\* amount_before_gst: z.number().min(0); 0, 1.00, 100.10, 1000.00
ExpenseAmounts == {0, 100, 10010, 100000}

ItemInputs ==
    [quantity : Quantities, rate : Rates, gst_rate_percentage : GstRates,
     product_service_id : {Product}]

\* the expense inputs whose total stays within TLC's integers
ExpenseInputs ==
    {e \in [amount_before_gst : ExpenseAmounts,
            gst_rate_applied_on_purchase : GstRates,
            place_of_supply_type_for_purchase : ExpenseSupplyTypes] :
        \/ e.place_of_supply_type_for_purchase = "Not Applicable"
        \/ e.amount_before_gst * (100 + e.gst_rate_applied_on_purchase)
              <= IntMax \div (Cent \div 100)}

(***************************************************************************)
(* The pure computations, applied to every input                           *)
(***************************************************************************)
NoCalc == [kind |-> "none"]

CalcInputs ==
    {[kind |-> "item", item |-> i, place |-> p, done |-> FALSE,
      out |-> ComputeItem([quantity |-> 1, rate |-> 0, gst_rate_percentage |-> 0,
       product_service_id |-> Product], p)] :
        i \in ItemInputs, p \in InvoiceSupplyTypes}
    \cup
    {[kind |-> "expense", expense |-> e, done |-> FALSE,
      out |-> calculateGSTAmounts(0, 0, "Not Applicable")] : e \in ExpenseInputs}

\* the items map of CreateEditInvoice.onSubmit on one item
ApplyItem ==
    /\ calc.kind = "item"
    /\ ~calc.done
    /\ calc' = [calc EXCEPT !.done = TRUE,
                            !.out = ComputeItem(calc.item, calc.place)]
    /\ UNCHANGED <<invoices, invoice_items, expenses, accounts, invForm, expForm, report, gstReport, chart, company_profiles, provider, invoiceList, auth>>

\* calculateGSTAmounts as CreateEditExpense.onSubmit calls it
ApplyExpense ==
    /\ calc.kind = "expense"
    /\ ~calc.done
    /\ calc' = [calc EXCEPT
                  !.done = TRUE,
                  !.out = calculateGSTAmounts(
                              FromHundredths(calc.expense.amount_before_gst),
                              calc.expense.gst_rate_applied_on_purchase,
                              calc.expense.place_of_supply_type_for_purchase)]
    /\ UNCHANGED <<invoices, invoice_items, expenses, accounts, invForm, expForm, report, gstReport, chart, company_profiles, provider, invoiceList, auth>>

(***************************************************************************)
(* Companies, sessions and dates                                           *)
(***************************************************************************)
Companies == {"A", "B"}

\* browser sessions holding a CreateEditInvoice / CreateEditExpense form;
\* useCompany() gives each its companyProfile
Sessions == {1, 2, 3}
companyProfile(s) == IF s = 3 THEN "B" ELSE "A"

\* format(date, 'yyyy-MM-dd'): the text orders as the dates do; a date
\* [y, m, d] is formatted to the number yyyymmdd
format(date) == date.y * 10000 + date.m * 100 + date.d

(***************************************************************************)
(* Rows as the store keeps them                                            *)
(***************************************************************************)
\* the rows a numeric(15,2) invoice_items table may keep for one computed item
StoredItem(id, item) ==
    [invoice_id : {id},
     product_service_id : {item.product_service_id},
     quantity : {item.quantity},
     rate : {item.rate},
     gst_rate_percentage : {item.gst_rate_percentage},
     item_total_amount : Numeric2(item.item_total_amount),
     cgst_amount : Numeric2(item.cgst_amount),
     sgst_amount : Numeric2(item.sgst_amount),
     igst_amount : Numeric2(item.igst_amount),
     item_gst_total : Numeric2(item.item_gst_total)]

StoredItems(id, items) ==
    {rows \in [1..Len(items) -> UNION {StoredItem(id, items[i]) : i \in 1..Len(items)}] :
        \A i \in 1..Len(items) : rows[i] \in StoredItem(id, items[i])}

\* the three total columns of an invoices row, as kept for a form's totals
StoredTotals(f) ==
    [sub_total_amount : Numeric2(f.subTotal),
     total_gst_amount : Numeric2(f.totalGst),
     total_invoice_amount : Numeric2(f.totalAmount)]

(***************************************************************************)
(* CreateEditInvoice.onSubmit, one action per storage call                 *)
(***************************************************************************)
IdleInvoiceForm(s) ==
    [company |-> companyProfile(s), pc |-> "idle", id |-> 0, created |-> 0,
     place_of_supply_type |-> "Intra-State", invoice_date |-> 0,
     items |-> <<>>, subTotal |-> 0, totalGst |-> 0, totalAmount |-> 0,
     isSubmitting |-> FALSE, outcome |-> "none", log |-> <<>>]

\* Button.tsx lines 47-53: disabled={disabled || isLoading}; a form whose
\* submit button is disabled is not submitted
ButtonNeverDisabled(disabled, isLoading) == FALSE

ButtonDisabled(disabled, isLoading) == disabled \/ isLoading

\* schema of CreateEditInvoice without the upper limit of the GST rate
InvoiceSchemaNoMax(data) ==
    /\ Len(data.items) >= 1
    /\ \A i \in 1..Len(data.items) :
          /\ data.items[i].quantity >= 1
          /\ data.items[i].rate >= 0
          /\ data.items[i].gst_rate_percentage >= 0

\* lines 21-39: items min(1); quantity min(0.01), rate min(0),
\* gst_rate_percentage min(0) max(28); amounts are in hundredths
InvoiceSchema(data) ==
    /\ Len(data.items) >= 1
    /\ \A i \in 1..Len(data.items) :
          /\ data.items[i].quantity >= 1
          /\ data.items[i].rate >= 0
          /\ data.items[i].gst_rate_percentage >= 0
          /\ data.items[i].gst_rate_percentage <= 28

\* lines 132-159: validation passed, the items and totals are computed
InvoiceSubmit(s, id, data) ==
    LET f == invForm[s]
        items == ComputeItems(data.items, data.place_of_supply_type)
    IN  /\ ~ButtonDisabled(FALSE, f.isSubmitting)
        /\ Len(data.items) >= 1
        /\ id \in 0..Len(invoices)
        /\ invForm' = [invForm EXCEPT ![s] =
              [f EXCEPT !.pc = IF id = 0 THEN "insertInvoice" ELSE "updateInvoice",
                        !.id = id,
                        !.created = 0,
                        !.place_of_supply_type = data.place_of_supply_type,
                        !.invoice_date = data.invoice_date,
                        !.items = items,
                        !.subTotal = subTotal(items),
                        !.totalGst = totalGst(items),
                        !.totalAmount = subTotal(items) + totalGst(items),
                        !.isSubmitting = TRUE,
                        !.outcome = "none",
                        !.log = <<>>]]
        /\ UNCHANGED <<invoices, invoice_items, expenses, accounts, expForm, report, calc, gstReport, chart, company_profiles, provider, invoiceList, auth>>

\* line 318: handleSubmit(onSubmit): the resolver checks the form data against
\* the schema; onSubmit runs on valid data, and on invalid data the errors
\* are shown and nothing else happens
InvoiceHandleSubmit(s, id, data) ==
    IF InvoiceSchema(data)
    THEN InvoiceSubmit(s, id, data)
    ELSE /\ ~ButtonDisabled(FALSE, invForm[s].isSubmitting)
         /\ invForm' = [invForm EXCEPT ![s].outcome = "rejected"]
         /\ UNCHANGED <<invoices, invoice_items, expenses, accounts, expForm, report, calc, gstReport, chart, company_profiles, provider, invoiceList, auth>>

\* catch + finally of onSubmit: the toast, setIsSubmitting(false)
InvoiceFailed(f) ==
    [f EXCEPT !.pc = "idle", !.isSubmitting = FALSE, !.outcome = "failed"]

\* an update that writes the status of a new invoice as well
UpdatedInvoiceAsDraft(row, f, t) ==
    [row EXCEPT !.invoice_date = f.invoice_date,
                !.place_of_supply_type = f.place_of_supply_type,
                !.sub_total_amount = t.sub_total_amount,
                !.total_gst_amount = t.total_gst_amount,
                !.total_invoice_amount = t.total_invoice_amount,
                !.status = "Draft"]

\* lines 163-174: the columns the update sets, in a row of invoices
UpdatedInvoice(row, f, t) ==
    [row EXCEPT !.invoice_date = f.invoice_date,
                !.place_of_supply_type = f.place_of_supply_type,
                !.sub_total_amount = t.sub_total_amount,
                !.total_gst_amount = t.total_gst_amount,
                !.total_invoice_amount = t.total_invoice_amount]

\* lines 161-178: update invoices ... eq(id) eq(company_id)
InvoiceUpdate(s) ==
    LET f == invForm[s] IN
    /\ f.pc = "updateInvoice"
    /\ \/ /\ \E t \in StoredTotals(f) :
               invoices' =
                 [i \in 1..Len(invoices) |->
                    IF i = f.id /\ invoices[i].company_id = f.company
                    THEN UpdatedInvoice(invoices[i], f, t)
                    ELSE invoices[i]]
          /\ invForm' = [invForm EXCEPT ![s] =
                [f EXCEPT !.pc = "deleteItems", !.log = Append(f.log, "update")]]
       \/ /\ invForm' = [invForm EXCEPT ![s] = InvoiceFailed(f)]
          /\ UNCHANGED invoices
    /\ UNCHANGED <<invoice_items, expenses, accounts, expForm, report, calc, gstReport, chart, company_profiles, provider, invoiceList, auth>>

\* lines 180-186: delete from invoice_items eq(invoice_id); the row policy
\* lets a user delete only the items of the invoices of their company
InvoiceDeleteItems(s) ==
    LET f == invForm[s] IN
    /\ f.pc = "deleteItems"
    /\ \/ /\ invoice_items' =
               IF invoices[f.id].company_id = f.company
               THEN [invoice_items EXCEPT ![f.id] = <<>>]
               ELSE invoice_items
          /\ invForm' = [invForm EXCEPT ![s] =
                [f EXCEPT !.pc = "insertItems", !.log = Append(f.log, "delete")]]
       \/ /\ invForm' = [invForm EXCEPT ![s] = InvoiceFailed(f)]
          /\ UNCHANGED invoice_items
    /\ UNCHANGED <<invoices, expenses, accounts, expForm, report, calc, gstReport, chart, company_profiles, provider, invoiceList, auth>>

\* lines 188-198 and 222-235: insert the items; the row policy rejects items
\* of an invoice of another company
InvoiceInsertItems(s) ==
    LET f == invForm[s]
        id == IF f.id = 0 THEN f.created ELSE f.id
    IN
    /\ f.pc = "insertItems"
    /\ \/ /\ invoices[id].company_id = f.company
          /\ \A i \in 1..Len(f.items) : UuidAccepted(f.items[i].product_service_id)
          /\ \E rows \in StoredItems(id, f.items) :
               invoice_items' = [invoice_items EXCEPT ![id] = @ \o rows]
          /\ invForm' = [invForm EXCEPT ![s] =
                [f EXCEPT !.pc = "idle", !.isSubmitting = FALSE,
                          !.outcome = "saved", !.log = Append(f.log, "insert")]]
       \/ /\ invForm' = [invForm EXCEPT ![s] = InvoiceFailed(f)]
          /\ UNCHANGED invoice_items
    /\ UNCHANGED <<invoices, expenses, accounts, expForm, report, calc, gstReport, chart, company_profiles, provider, invoiceList, auth>>

\* lines 200-220: insert into invoices ... status 'Draft', select().single()
InvoiceInsert(s) ==
    LET f == invForm[s] IN
    /\ f.pc = "insertInvoice"
    /\ \/ /\ \E t \in StoredTotals(f) :
               invoices' = Append(invoices,
                   [company_id |-> f.company,
                    invoice_date |-> f.invoice_date,
                    place_of_supply_type |-> f.place_of_supply_type,
                    status |-> "Draft",
                    sub_total_amount |-> t.sub_total_amount,
                    total_gst_amount |-> t.total_gst_amount,
                    total_invoice_amount |-> t.total_invoice_amount])
          /\ invoice_items' = Append(invoice_items, <<>>)
          /\ invForm' = [invForm EXCEPT ![s] =
                [f EXCEPT !.pc = "insertItems", !.created = Len(invoices) + 1,
                          !.log = Append(f.log, "insertInvoice")]]
       \/ /\ invForm' = [invForm EXCEPT ![s] = InvoiceFailed(f)]
          /\ UNCHANGED <<invoices, invoice_items>>
    /\ UNCHANGED <<expenses, accounts, expForm, report, calc, gstReport, chart, company_profiles, provider, invoiceList, auth>>

(***************************************************************************)
(* Accounts: create_default_accounts(company_id)                           *)
(***************************************************************************)
create_default_accounts(company_id) ==
    <<[company_id |-> company_id, account_name |-> "Sales",
       account_type |-> "Income", is_default |-> TRUE],
      [company_id |-> company_id, account_name |-> "Purchases/Direct Expenses",
       account_type |-> "Expense", is_default |-> TRUE],
      [company_id |-> company_id, account_name |-> "Bank Account",
       account_type |-> "Asset", is_default |-> TRUE],
      [company_id |-> company_id, account_name |-> "Cash in Hand",
       account_type |-> "Asset", is_default |-> TRUE],
      [company_id |-> company_id, account_name |-> "GST Payable",
       account_type |-> "Liability", is_default |-> TRUE],
      [company_id |-> company_id, account_name |-> "GST Input Credit",
       account_type |-> "Asset", is_default |-> TRUE]>>

\* CreateEditExpense.loadData: the Expense accounts of the company, the
\* options of the expense_account_id select
ExpenseAccountIds(company) ==
    {a \in 1..Len(accounts) : /\ accounts[a].company_id = company
                              /\ accounts[a].account_type = "Expense"}

(***************************************************************************)
(* CreateEditExpense.onSubmit                                              *)
(***************************************************************************)
IdleExpenseForm(s) ==
    [company |-> companyProfile(s), pc |-> "idle", id |-> 0,
     expenseData |-> [company_id |-> companyProfile(s)],
     isSubmitting |-> FALSE, outcome |-> "none"]

\* lines 162-177: expenseData, amounts as computed (before the store rounds)
ExpenseData(company, data) ==
    LET r == calculateGSTAmounts(FromHundredths(data.amount_before_gst),
                                 data.gst_rate_applied_on_purchase,
                                 data.place_of_supply_type_for_purchase)
    IN  [company_id |-> company,
         expense_date |-> data.expense_date,
         expense_account_id |-> data.expense_account_id,
         amount_before_gst |-> FromHundredths(data.amount_before_gst),
         gst_rate_applied_on_purchase |-> data.gst_rate_applied_on_purchase,
         gst_paid_amount |-> r.gstPaidAmount,
         total_expense_amount |-> r.totalAmount,
         place_of_supply_type_for_purchase |-> data.place_of_supply_type_for_purchase,
         cgst_input_credit |-> r.cgstInputCredit,
         sgst_input_credit |-> r.sgstInputCredit,
         igst_input_credit |-> r.igstInputCredit]

\* the rows the expenses table may keep for an expenseData
StoredExpense(e) ==
    [company_id : {e.company_id},
     expense_date : {e.expense_date},
     expense_account_id : {e.expense_account_id},
     amount_before_gst : Numeric2(e.amount_before_gst),
     gst_rate_applied_on_purchase : {e.gst_rate_applied_on_purchase},
     gst_paid_amount : Numeric2(e.gst_paid_amount),
     total_expense_amount : Numeric2(e.total_expense_amount),
     place_of_supply_type_for_purchase : {e.place_of_supply_type_for_purchase},
     cgst_input_credit : Numeric2(e.cgst_input_credit),
     sgst_input_credit : Numeric2(e.sgst_input_credit),
     igst_input_credit : Numeric2(e.igst_input_credit)]

\* CreateEditExpense lines 20-32: expense_account_id min(1), amount_before_gst
\* min(0), gst_rate_applied_on_purchase min(0) max(28); the select without a
\* choice holds the empty string, here the account 0
ExpenseSchema(data) ==
    /\ data.expense_account_id # 0
    /\ data.amount_before_gst >= 0
    /\ data.gst_rate_applied_on_purchase >= 0
    /\ data.gst_rate_applied_on_purchase <= 28

\* lines 145-177: validation passed, the amounts are computed
ExpenseSubmit(s, id, data) ==
    LET f == expForm[s] IN
    /\ ~ButtonDisabled(FALSE, f.isSubmitting)
    /\ data.expense_account_id \in ExpenseAccountIds(f.company)
    /\ id \in 0..Len(expenses)
    /\ expForm' = [expForm EXCEPT ![s] =
          [f EXCEPT !.pc = "save", !.id = id,
                    !.expenseData = ExpenseData(f.company, data),
                    !.isSubmitting = TRUE,
                    !.outcome = "none"]]
    /\ UNCHANGED <<invoices, invoice_items, expenses, accounts, invForm, report, calc, gstReport, chart, company_profiles, provider, invoiceList, auth>>

\* line 259: handleSubmit(onSubmit)
ExpenseHandleSubmit(s, id, data) ==
    IF ExpenseSchema(data)
    THEN ExpenseSubmit(s, id, data)
    ELSE /\ ~ButtonDisabled(FALSE, expForm[s].isSubmitting)
         /\ expForm' = [expForm EXCEPT ![s].outcome = "rejected"]
         /\ UNCHANGED <<invoices, invoice_items, expenses, accounts, invForm, report, calc, gstReport, chart, company_profiles, provider, invoiceList, auth>>

\* expense_account_id uuid REFERENCES accounts(id) NOT NULL: a row of
\* expenses is stored only with the id of a row of accounts (a deleted row
\* is kept as the record of no account)
AccountExists(id) ==
    /\ id \in 1..Len(accounts)
    /\ accounts[id].company_id \in Companies

\* lines 179-208: update ... eq(id) eq(company_id), or insert; then finally
ExpenseSave(s) ==
    LET f == expForm[s] IN
    /\ f.pc = "save"
    /\ \/ /\ AccountExists(f.expenseData.expense_account_id)
          /\ \E row \in StoredExpense(f.expenseData) :
               expenses' =
                 IF f.id = 0
                 THEN Append(expenses, row)
                 ELSE [i \in 1..Len(expenses) |->
                         IF i = f.id /\ expenses[i].company_id = f.company
                         THEN row ELSE expenses[i]]
          /\ expForm' = [expForm EXCEPT ![s] =
                [f EXCEPT !.pc = "idle", !.isSubmitting = FALSE, !.outcome = "saved"]]
       \/ /\ expForm' = [expForm EXCEPT ![s] =
                [f EXCEPT !.pc = "idle", !.isSubmitting = FALSE, !.outcome = "failed"]]
          /\ UNCHANGED expenses
    /\ UNCHANGED <<invoices, invoice_items, accounts, invForm, report, calc, gstReport, chart, company_profiles, provider, invoiceList, auth>>

(***************************************************************************)
(* Invoices.updateInvoiceStatus                                            *)
(***************************************************************************)
\* the button offered for a listed invoice: Mark as Sent on a Draft, Mark as
\* Paid on a Sent one (the list is taken as showing the stored status)
OfferedStatus(status) ==
    CASE status = "Draft" -> {"Sent"}
      [] status = "Sent" -> {"Paid"}
      [] OTHER -> {}

\* update invoices set status ... eq(id) eq(company_id)
updateInvoiceStatus(company, invoiceId, status) ==
    /\ invoiceId \in 1..Len(invoices)
    /\ invoices[invoiceId].company_id = company
    /\ status \in OfferedStatus(invoices[invoiceId].status)
    /\ invoices' = [invoices EXCEPT ![invoiceId].status = status]
    /\ UNCHANGED <<invoice_items, expenses, accounts, invForm, expForm, report, calc, gstReport, chart, company_profiles, provider, invoiceList, auth>>

(***************************************************************************)
(* Invoices: the list page of a session, with the statuses it last fetched *)
(***************************************************************************)
InvoicesUnmounted(s) ==
    [pc |-> "unmounted", company |-> companyProfile(s), invoices |-> <<>>,
     loading |-> TRUE]

\* lines 33-46: from invoices select ... eq(company_id): the status of each
\* row of the company, by id; the rows of other companies are not returned
ListedInvoices(company) ==
    [i \in 1..Len(invoices) |->
        IF invoices[i].company_id = company THEN invoices[i].status ELSE "none"]

\* lines 26-32: the page mounts; the effect calls fetchInvoices
InvoicesMount(s) ==
    /\ invoiceList[s].pc = "unmounted"
    /\ invoiceList' = [invoiceList EXCEPT ![s] =
          [InvoicesUnmounted(s) EXCEPT !.pc = "mounted"]]
    /\ UNCHANGED <<invoices, invoice_items, expenses, accounts, invForm, expForm, report,
                   calc, gstReport, chart, company_profiles, provider, auth>>

\* lines 33-52: the query answers; setInvoices, or the toast; setLoading(false)
fetchInvoices(s) ==
    /\ invoiceList[s].pc = "mounted"
    /\ invoiceList[s].loading
    /\ \/ invoiceList' = [invoiceList EXCEPT
                             ![s].loading = FALSE,
                             ![s].invoices = ListedInvoices(invoiceList[s].company)]
       \/ invoiceList' = [invoiceList EXCEPT ![s].loading = FALSE]
    /\ UNCHANGED <<invoices, invoice_items, expenses, accounts, invForm, expForm, report,
                   calc, gstReport, chart, company_profiles, provider, auth>>

\* lines 55-73, 279-297: a button of a listed row is clicked, Mark as Sent
\* on a row listed as Draft or Mark as Paid on a row listed as Sent; update
\* invoices set status ... eq(id) eq(company_id), then fetchInvoices; or the
\* toast
InvoicesUpdateStatus(s, invoiceId, status) ==
    LET l == invoiceList[s] IN
    /\ l.pc = "mounted"
    /\ ~l.loading
    /\ invoiceId \in 1..Len(l.invoices)
    /\ status \in OfferedStatus(l.invoices[invoiceId])
    /\ \/ /\ invoices' =
               [i \in 1..Len(invoices) |->
                  IF i = invoiceId /\ invoices[i].company_id = l.company
                  THEN [invoices[i] EXCEPT !.status = status]
                  ELSE invoices[i]]
          /\ invoiceList' = [invoiceList EXCEPT ![s].loading = TRUE]
       \/ UNCHANGED <<invoices, invoiceList>>
    /\ UNCHANGED <<invoice_items, expenses, accounts, invForm, expForm, report, calc,
                   gstReport, chart, company_profiles, provider, auth>>

\* the user leaves the page
InvoicesUnmount(s) ==
    /\ invoiceList[s].pc = "mounted"
    /\ invoiceList' = [invoiceList EXCEPT ![s] = InvoicesUnmounted(s)]
    /\ UNCHANGED <<invoices, invoice_items, expenses, accounts, invForm, expForm, report,
                   calc, gstReport, chart, company_profiles, provider, auth>>

(***************************************************************************)
(* Dates (date-fns startOfMonth, endOfMonth)                               *)
(***************************************************************************)
IsLeapYear(y) == (y % 4 = 0 /\ y % 100 # 0) \/ y % 400 = 0

DaysInMonth(y, m) ==
    CASE m = 2 -> IF IsLeapYear(y) THEN 29 ELSE 28
      [] m \in {4, 6, 9, 11} -> 30
      [] OTHER -> 31

startOfMonth(date) == [y |-> date.y, m |-> date.m, d |-> 1]
endOfMonth(date) == [y |-> date.y, m |-> date.m, d |-> DaysInMonth(date.y, date.m)]

\* the month count of a date's month, and the month of a count
MonthIndex(date) == date.y * 12 + (date.m - 1)
MonthOf(i) == [y |-> i \div 12, m |-> (i % 12) + 1]

\* Date.setMonth as JavaScript has it: a day past the end of the month runs
\* over into the next month
\* a month after December that stays in the same year
addMonthsYearLost(date, amount) ==
    LET t == MonthOf(MonthIndex(date) + amount)
        y == IF amount > 0 /\ t.y > date.y THEN date.y ELSE t.y
        days == DaysInMonth(y, t.m)
    IN  [y |-> y, m |-> t.m, d |-> IF date.d >= days THEN days ELSE date.d]

addMonthsOverflow(date, amount) ==
    LET t == MonthOf(MonthIndex(date) + amount)
        days == DaysInMonth(t.y, t.m)
        n == MonthOf(MonthIndex(date) + amount + 1)
    IN  IF date.d > days
        THEN [y |-> n.y, m |-> n.m, d |-> date.d - days]
        ELSE [y |-> t.y, m |-> t.m, d |-> date.d]

\* date-fns addMonths: the same day of the month amount months on, or the
\* last day of that month when it has no such day
addMonths(date, amount) ==
    LET t == MonthOf(MonthIndex(date) + amount)
        days == DaysInMonth(t.y, t.m)
    IN  [y |-> t.y, m |-> t.m, d |-> IF date.d >= days THEN days ELSE date.d]

\* date-fns subMonths(date, amount) is addMonths(date, -amount)
subMonths(date, amount) == addMonths(date, 0 - amount)

(***************************************************************************)
(* ProfitLossReport                                                        *)
(***************************************************************************)
RECURSIVE SumOver(_, _, _)
\* rows.reduce((sum, row) => sum + (row[field] || 0), 0) over the rows ids
SumOver(table, ids, field) ==
    IF ids = {} THEN 0
    ELSE LET i == CHOOSE x \in ids : TRUE
         IN  table[i][field] + SumOver(table, ids \ {i}, field)

SalesQueryWithDrafts(company, startDate, endDate) ==
    {i \in 1..Len(invoices) :
        /\ invoices[i].company_id = company
        /\ invoices[i].invoice_date >= format(startDate)
        /\ invoices[i].invoice_date <= format(endDate)}

SalesQueryAllCompanies(company, startDate, endDate) ==
    {i \in 1..Len(invoices) :
        /\ invoices[i].status # "Draft"
        /\ invoices[i].invoice_date >= format(startDate)
        /\ invoices[i].invoice_date <= format(endDate)}

\* lines 37-43: from invoices eq(company_id) neq(status, Draft)
\* gte(invoice_date, start) lte(invoice_date, end)
SalesQuery(company, startDate, endDate) ==
    {i \in 1..Len(invoices) :
        /\ invoices[i].company_id = company
        /\ invoices[i].status # "Draft"
        /\ invoices[i].invoice_date >= format(startDate)
        /\ invoices[i].invoice_date <= format(endDate)}

\* alphabetical rank of the account names in use, for order('account_name')
AccountNames ==
    <<"Advertising", "Bank Account", "Cash in Hand", "GST Input Credit",
      "GST Payable", "Purchases/Direct Expenses", "Rent", "Sales">>
NameRank(name) == CHOOSE k \in 1..Len(AccountNames) : AccountNames[k] = name

RECURSIVE OrderByName(_)
OrderByName(ids) ==
    IF ids = {} THEN <<>>
    ELSE LET a == CHOOSE x \in ids : \A z \in ids :
                    \/ NameRank(accounts[x].account_name) < NameRank(accounts[z].account_name)
                    \/ /\ NameRank(accounts[x].account_name) = NameRank(accounts[z].account_name)
                       /\ x <= z
         IN  <<a>> \o OrderByName(ids \ {a})

\* lines 51-56: from accounts eq(company_id) eq(account_type, Expense)
\* order(account_name)
AccountsQuery(company) == OrderByName(ExpenseAccountIds(company))

\* lines 62-68: from expenses eq(company_id) eq(expense_account_id)
\* gte(expense_date, start) lte(expense_date, end)
ExpensesQuery(company, account, startDate, endDate) ==
    {i \in 1..Len(expenses) :
        /\ expenses[i].company_id = company
        /\ expenses[i].expense_account_id = account
        /\ expenses[i].expense_date >= format(startDate)
        /\ expenses[i].expense_date <= format(endDate)}

NoDate == [y |-> 0, m |-> 0, d |-> 0]

\* the rows of the accounts query, as the run keeps them
AccountRows(ids) ==
    [k \in 1..Len(ids) |->
        [id |-> ids[k], account_name |-> accounts[ids[k]].account_name]]

\* a call of fetchReportData: it reads the startDate and endDate of the render
\* whose effect called it
NewRun(startDate, endDate) ==
    [pc |-> "sales", startDate |-> startDate, endDate |-> endDate,
     fetched |-> <<>>, answered |-> {}, results |-> <<>>]

RemoveRun(runs, r) == SubSeq(runs, 1, r - 1) \o SubSeq(runs, r + 1, Len(runs))

Unmounted ==
    [pc |-> "unmounted", company |-> "A", startDate |-> NoDate, endDate |-> NoDate,
     loading |-> TRUE, totalSales |-> 0, expensesByAccount |-> <<>>, runs |-> <<>>]

\* lines 21-34: the component mounts for the company on the day today (the
\* two new Date() of the first render fall on the same day); the effect calls
\* fetchReportData, which sets loading
ReportMount(company, today) ==
    /\ report.pc = "unmounted"
    /\ report' = [Unmounted EXCEPT
                    !.pc = "mounted", !.company = company,
                    !.startDate = startOfMonth(today),
                    !.endDate = endOfMonth(today),
                    !.loading = TRUE,
                    !.runs = <<NewRun(startOfMonth(today), endOfMonth(today))>>]
    /\ UNCHANGED <<invoices, invoice_items, expenses, accounts, invForm, expForm, calc,
                   gstReport, chart, company_profiles, provider, invoiceList, auth>>

\* lines 92-95 and 27-34: Previous is clicked (the button is there while a
\* fetch is under way, too); the effect calls fetchReportData for the new dates
previousMonth ==
    LET startDate == startOfMonth(subMonths(report.startDate, 1))
        endDate == endOfMonth(subMonths(report.endDate, 1))
    IN  /\ report.pc = "mounted"
        /\ report' = [report EXCEPT !.startDate = startDate,
                                    !.endDate = endDate,
                                    !.loading = TRUE,
                                    !.runs = Append(@, NewRun(startDate, endDate))]
        /\ UNCHANGED <<invoices, invoice_items, expenses, accounts, invForm, expForm,
                       calc, gstReport, chart, company_profiles, provider, invoiceList, auth>>

\* lines 97-100 and 27-34: Next is clicked
nextMonth ==
    LET startDate == startOfMonth(addMonths(report.startDate, 1))
        endDate == endOfMonth(addMonths(report.endDate, 1))
    IN  /\ report.pc = "mounted"
        /\ report' = [report EXCEPT !.startDate = startDate,
                                    !.endDate = endDate,
                                    !.loading = TRUE,
                                    !.runs = Append(@, NewRun(startDate, endDate))]
        /\ UNCHANGED <<invoices, invoice_items, expenses, accounts, invForm, expForm,
                       calc, gstReport, chart, company_profiles, provider, invoiceList, auth>>

\* catch + finally of fetchReportData: the toast, setLoading(false); what the
\* page shows stays as it was
ReportFailed(r) ==
    [report EXCEPT !.loading = FALSE, !.runs = RemoveRun(@, r)]

\* lines 37-48: the sales query of run r answers; setTotalSales
ReportSales(r) ==
    LET run == report.runs[r] IN
    /\ run.pc = "sales"
    /\ \/ report' = [report EXCEPT
                       !.runs[r].pc = "accounts",
                       !.totalSales = SumOver(invoices,
                            SalesQuery(report.company, run.startDate, run.endDate),
                            "sub_total_amount")]
       \/ report' = ReportFailed(r)
    /\ UNCHANGED <<invoices, invoice_items, expenses, accounts, invForm, expForm, calc,
                   gstReport, chart, company_profiles, provider, invoiceList, auth>>

\* lines 51-61: the accounts query of run r answers; one expenses query per
\* account is sent, all at once
ReportAccounts(r) ==
    LET run == report.runs[r]
        rows == AccountRows(AccountsQuery(report.company))
    IN
    /\ run.pc = "accounts"
    /\ \/ report' = [report EXCEPT
                       !.runs[r].pc = "expenses",
                       !.runs[r].fetched = rows,
                       !.runs[r].answered = {},
                       !.runs[r].results = [k \in 1..Len(rows) |-> 0]]
       \/ report' = ReportFailed(r)
    /\ UNCHANGED <<invoices, invoice_items, expenses, accounts, invForm, expForm, calc,
                   gstReport, chart, company_profiles, provider, invoiceList, auth>>

SettleInArrivalOrder(results, answered, k, total) ==
    [results EXCEPT ![Cardinality(answered) + 1] = total]

\* Promise.all: the value of the k-th promise is the k-th element of the
\* result, whenever it arrives
Settle(results, answered, k, total) == [results EXCEPT ![k] = total]

\* lines 62-77: the expenses query for the k-th account of run r answers, in
\* any order among the queries of the run; an error rejects the Promise.all
ReportExpenseAnswer(r, k) ==
    LET run == report.runs[r] IN
    /\ run.pc = "expenses"
    /\ k \in (1..Len(run.fetched)) \ run.answered
    /\ \/ report' = [report EXCEPT
                       !.runs[r].answered = @ \cup {k},
                       !.runs[r].results = Settle(@, run.answered, k,
                            SumOver(expenses,
                                ExpensesQuery(report.company, run.fetched[k].id,
                                              run.startDate, run.endDate),
                                "amount_before_gst"))]
       \/ report' = ReportFailed(r)
    /\ UNCHANGED <<invoices, invoice_items, expenses, accounts, invForm, expForm, calc,
                   gstReport, chart, company_profiles, provider, invoiceList, auth>>

\* lines 78-86: every query of run r has answered; setExpensesByAccount,
\* setLoading(false)
ReportExpenses(r) ==
    LET run == report.runs[r] IN
    /\ run.pc = "expenses"
    /\ run.answered = 1..Len(run.fetched)
    /\ report' = [report EXCEPT
                    !.loading = FALSE,
                    !.runs = RemoveRun(@, r),
                    !.expensesByAccount =
                       [k \in 1..Len(run.fetched) |->
                          [account |-> run.fetched[k], total |-> run.results[k]]]]
    /\ UNCHANGED <<invoices, invoice_items, expenses, accounts, invForm, expForm, calc,
                   gstReport, chart, company_profiles, provider, invoiceList, auth>>

\* the user leaves the page; a fetch in flight no longer changes anything shown
ReportUnmount ==
    /\ report.pc # "unmounted"
    /\ report' = Unmounted
    /\ UNCHANGED <<invoices, invoice_items, expenses, accounts, invForm, expForm, calc,
                   gstReport, chart, company_profiles, provider, invoiceList, auth>>

\* line 89
totalExpenses == SumField(report.expensesByAccount, "total")

netProfitClamped ==
    IF report.totalSales - totalExpenses < 0 THEN 0
    ELSE report.totalSales - totalExpenses

\* line 90
netProfit == report.totalSales - totalExpenses

Abs(x) == IF x >= 0 THEN x ELSE 0 - x

\* lines 181-186: the heading Net Profit or Net Loss and the amount beside it
NetHeading == IF netProfit >= 0 THEN "Profit" ELSE "Loss"
NetShown == Abs(netProfit)

(***************************************************************************)
(* GSTReport                                                               *)
(***************************************************************************)
GstSalesQueryWithDrafts(company, startDate, endDate) ==
    {i \in 1..Len(invoices) :
        /\ invoices[i].company_id = company
        /\ invoices[i].invoice_date >= format(startDate)
        /\ invoices[i].invoice_date <= format(endDate)}

\* lines 47-60: from invoices select sub_total_amount, invoice_items(...)
\* eq(company_id) neq(status, Draft) gte(invoice_date) lte(invoice_date)
GstSalesQuery(company, startDate, endDate) ==
    {i \in 1..Len(invoices) :
        /\ invoices[i].company_id = company
        /\ invoices[i].status # "Draft"
        /\ invoices[i].invoice_date >= format(startDate)
        /\ invoices[i].invoice_date <= format(endDate)}

RECURSIVE SumItems(_, _)
\* lines 66-70: over the invoices ids, over the invoice_items embedded in each
SumItems(ids, field) ==
    IF ids = {} THEN 0
    ELSE LET i == CHOOSE x \in ids : TRUE
         IN  SumField(invoice_items[i], field) + SumItems(ids \ {i}, field)

\* lines 64-72
salesSummary(ids) ==
    [taxableValue |-> SumOver(invoices, ids, "sub_total_amount"),
     cgst |-> SumItems(ids, "cgst_amount"),
     sgst |-> SumItems(ids, "sgst_amount"),
     igst |-> SumItems(ids, "igst_amount")]

GstExpensesQueryOneAccount(company, startDate, endDate) ==
    {i \in 1..Len(expenses) :
        /\ expenses[i].company_id = company
        /\ accounts[expenses[i].expense_account_id].is_default
        /\ expenses[i].expense_date >= format(startDate)
        /\ expenses[i].expense_date <= format(endDate)}

\* lines 75-85: from expenses eq(company_id) gte(expense_date) lte(expense_date)
GstExpensesQuery(company, startDate, endDate) ==
    {i \in 1..Len(expenses) :
        /\ expenses[i].company_id = company
        /\ expenses[i].expense_date >= format(startDate)
        /\ expenses[i].expense_date <= format(endDate)}

\* lines 89-95
purchasesSummary(ids) ==
    [taxableValue |-> SumOver(expenses, ids, "amount_before_gst"),
     cgstInput |-> SumOver(expenses, ids, "cgst_input_credit"),
     sgstInput |-> SumOver(expenses, ids, "sgst_input_credit"),
     igstInput |-> SumOver(expenses, ids, "igst_input_credit")]

\* lines 32-35
NoSummary ==
    [sales |-> [taxableValue |-> 0, cgst |-> 0, sgst |-> 0, igst |-> 0],
     purchases |-> [taxableValue |-> 0, cgstInput |-> 0, sgstInput |-> 0,
                    igstInput |-> 0]]

\* a call of fetchGSTData, with the dates of the render whose effect called it
NewGstRun(startDate, endDate) ==
    [pc |-> "invoices", startDate |-> startDate, endDate |-> endDate,
     salesSummary |-> NoSummary.sales]

GstUnmounted ==
    [pc |-> "unmounted", company |-> "A", startDate |-> NoDate, endDate |-> NoDate,
     loading |-> TRUE, summary |-> NoSummary, runs |-> <<>>, outcome |-> "none"]

\* lines 29-44: the component mounts; the effect calls fetchGSTData
GstMount(company, today) ==
    /\ gstReport.pc = "unmounted"
    /\ gstReport' = [GstUnmounted EXCEPT
                       !.pc = "mounted", !.company = company,
                       !.startDate = startOfMonth(today),
                       !.endDate = endOfMonth(today),
                       !.loading = TRUE,
                       !.runs = <<NewGstRun(startOfMonth(today), endOfMonth(today))>>]
    /\ UNCHANGED <<invoices, invoice_items, expenses, accounts, invForm, expForm,
                   report, calc, chart, company_profiles, provider, invoiceList, auth>>

\* lines 109-112 and 37-44: Previous is clicked
GstPreviousMonth ==
    LET startDate == startOfMonth(subMonths(gstReport.startDate, 1))
        endDate == endOfMonth(subMonths(gstReport.endDate, 1))
    IN  /\ gstReport.pc = "mounted"
        /\ gstReport' = [gstReport EXCEPT
                           !.startDate = startDate,
                           !.endDate = endDate,
                           !.loading = TRUE,
                           !.runs = Append(@, NewGstRun(startDate, endDate))]
        /\ UNCHANGED <<invoices, invoice_items, expenses, accounts, invForm, expForm,
                       report, calc, chart, company_profiles, provider, invoiceList, auth>>

\* lines 114-117 and 37-44: Next is clicked
GstNextMonth ==
    LET startDate == startOfMonth(addMonths(gstReport.startDate, 1))
        endDate == endOfMonth(addMonths(gstReport.endDate, 1))
    IN  /\ gstReport.pc = "mounted"
        /\ gstReport' = [gstReport EXCEPT
                           !.startDate = startDate,
                           !.endDate = endDate,
                           !.loading = TRUE,
                           !.runs = Append(@, NewGstRun(startDate, endDate))]
        /\ UNCHANGED <<invoices, invoice_items, expenses, accounts, invForm, expForm,
                       report, calc, chart, company_profiles, provider, invoiceList, auth>>

\* lines 101-106: catch + finally of fetchGSTData; outcome is what the last
\* call to end did: it set the summary, or it showed the toast
GstFailed(r) ==
    [gstReport EXCEPT !.loading = FALSE, !.runs = RemoveRun(@, r),
                      !.outcome = "failed"]

\* lines 47-72: the invoices query of run r answers; salesSummary
GstInvoices(r) ==
    LET run == gstReport.runs[r] IN
    /\ run.pc = "invoices"
    /\ \/ gstReport' = [gstReport EXCEPT
                          !.runs[r].pc = "expenses",
                          !.runs[r].salesSummary =
                              salesSummary(GstSalesQuery(gstReport.company,
                                               run.startDate, run.endDate))]
       \/ gstReport' = GstFailed(r)
    /\ UNCHANGED <<invoices, invoice_items, expenses, accounts, invForm, expForm,
                   report, calc, chart, company_profiles, provider, invoiceList, auth>>

\* lines 75-106: the expenses query of run r answers; setSummary,
\* setLoading(false)
GstExpenses(r) ==
    LET run == gstReport.runs[r] IN
    /\ run.pc = "expenses"
    /\ \/ gstReport' = [gstReport EXCEPT
                          !.loading = FALSE,
                          !.runs = RemoveRun(@, r),
                          !.outcome = "loaded",
                          !.summary =
                              [sales |-> run.salesSummary,
                               purchases |->
                                  purchasesSummary(GstExpensesQuery(gstReport.company,
                                                       run.startDate, run.endDate))]]
       \/ gstReport' = GstFailed(r)
    /\ UNCHANGED <<invoices, invoice_items, expenses, accounts, invForm, expForm,
                   report, calc, chart, company_profiles, provider, invoiceList, auth>>

\* the user leaves the page
GstUnmount ==
    /\ gstReport.pc # "unmounted"
    /\ gstReport' = GstUnmounted
    /\ UNCHANGED <<invoices, invoice_items, expenses, accounts, invForm, expForm,
                   report, calc, chart, company_profiles, provider, invoiceList, auth>>

netGSTPayableClamped ==
    LET net(x) == IF x < 0 THEN 0 ELSE x IN
    [cgst |-> net(gstReport.summary.sales.cgst - gstReport.summary.purchases.cgstInput),
     sgst |-> net(gstReport.summary.sales.sgst - gstReport.summary.purchases.sgstInput),
     igst |-> net(gstReport.summary.sales.igst - gstReport.summary.purchases.igstInput)]

\* lines 119-123
netGSTPayable ==
    [cgst |-> gstReport.summary.sales.cgst - gstReport.summary.purchases.cgstInput,
     sgst |-> gstReport.summary.sales.sgst - gstReport.summary.purchases.sgstInput,
     igst |-> gstReport.summary.sales.igst - gstReport.summary.purchases.igstInput]

\* lines 269-285: the amount shown for a head and the label after it
GstNetShown(x) == Abs(x)
GstNetLabel(x) == IF x >= 0 THEN "Payable" ELSE "Credit"

(***************************************************************************)
(* ChartOfAccounts                                                         *)
(***************************************************************************)
\* what the accounts table holds in the place of a deleted row
NoAccount ==
    [company_id |-> "none", account_name |-> "", account_type |-> "",
     is_default |-> FALSE]

\* lines 69-74: from accounts select * eq(company_id); the rows listed (the
\* order of the list plays no part in what the page offers)
AccountsOf(company) ==
    {[id |-> a, account_name |-> accounts[a].account_name,
      account_type |-> accounts[a].account_type,
      is_default |-> accounts[a].is_default] :
        a \in {x \in 1..Len(accounts) : accounts[x].company_id = company}}

\* editingAccount = null
NoEditing == [id |-> 0]

ChartUnmounted(s) ==
    [pc |-> "unmounted", company |-> companyProfile(s), accounts |-> {},
     fetching |-> FALSE, showModal |-> FALSE, editingAccount |-> NoEditing]

\* lines 46-48, 64-67: the page mounts; the effect calls fetchAccounts
ChartMount(s) ==
    /\ chart[s].pc = "unmounted"
    /\ chart' = [chart EXCEPT ![s] =
          [ChartUnmounted(s) EXCEPT !.pc = "mounted", !.fetching = TRUE]]
    /\ UNCHANGED <<invoices, invoice_items, expenses, accounts, invForm, expForm,
                   report, calc, gstReport, company_profiles, provider, invoiceList, auth>>

\* lines 69-84: the accounts query answers; setAccounts, or the toast
fetchAccounts(s) ==
    /\ chart[s].pc = "mounted"
    /\ chart[s].fetching
    /\ \/ chart' = [chart EXCEPT ![s].fetching = FALSE,
                                 ![s].accounts = AccountsOf(chart[s].company)]
       \/ chart' = [chart EXCEPT ![s].fetching = FALSE]
    /\ UNCHANGED <<invoices, invoice_items, expenses, accounts, invForm, expForm,
                   report, calc, gstReport, company_profiles, provider, invoiceList, auth>>

\* is the Edit button of a listed account enabled
EditEnabledAlways(account) == TRUE

\* lines 263-270: disabled={account.is_default}
EditEnabled(account) == ~account.is_default

\* lines 271-278: disabled={account.is_default}
DeleteEnabled(account) == ~account.is_default

\* lines 87-90, 211-216, 263-270: Add Account, or Edit on a listed account
openModal(s, account) ==
    /\ chart[s].pc = "mounted"
    /\ \/ account = NoEditing
       \/ /\ account \in chart[s].accounts
          /\ EditEnabled(account)
    /\ chart' = [chart EXCEPT ![s].editingAccount = account,
                              ![s].showModal = TRUE]
    /\ UNCHANGED <<invoices, invoice_items, expenses, accounts, invForm, expForm,
                   report, calc, gstReport, company_profiles, provider, invoiceList, auth>>

\* lines 92-96
closeModal(s) ==
    /\ chart[s].pc = "mounted"
    /\ chart[s].showModal
    /\ chart' = [chart EXCEPT ![s].editingAccount = NoEditing,
                              ![s].showModal = FALSE]
    /\ UNCHANGED <<invoices, invoice_items, expenses, accounts, invForm, expForm,
                   report, calc, gstReport, company_profiles, provider, invoiceList, auth>>

\* lines 98-141: the form of the modal is submitted; update ... eq(id)
\* eq(company_id), or insert with is_default false; then closeModal and
\* fetchAccounts, or the toast
ChartOnSubmit(s, data) ==
    LET c == chart[s] IN
    /\ c.pc = "mounted"
    /\ c.showModal
    /\ \/ /\ accounts' =
               IF c.editingAccount # NoEditing
               THEN [a \in 1..Len(accounts) |->
                       IF a = c.editingAccount.id /\ accounts[a].company_id = c.company
                       THEN [accounts[a] EXCEPT
                               !.account_name = data.account_name,
                               !.account_type = data.account_type]
                       ELSE accounts[a]]
               ELSE Append(accounts,
                       [company_id |-> c.company,
                        account_name |-> data.account_name,
                        account_type |-> data.account_type,
                        is_default |-> FALSE])
          /\ chart' = [chart EXCEPT ![s].editingAccount = NoEditing,
                                    ![s].showModal = FALSE,
                                    ![s].fetching = TRUE]
       \/ UNCHANGED <<accounts, chart>>
    /\ UNCHANGED <<invoices, invoice_items, expenses, invForm, expForm,
                   report, calc, gstReport, company_profiles, provider, invoiceList, auth>>

\* accounts whose rows no table references
AccountInUseNever(id) == FALSE

\* expenses.expense_account_id references accounts(id)
AccountInUse(id) == \E e \in 1..Len(expenses) : expenses[e].expense_account_id = id

\* lines 143-172: Delete on a listed account, confirmed; delete ... eq(id)
\* eq(company_id) eq(is_default, false), which the foreign key of expenses
\* refuses for an account in use; then fetchAccounts, or a toast
deleteAccount(s, account) ==
    LET c == chart[s] IN
    /\ c.pc = "mounted"
    /\ account \in c.accounts
    /\ DeleteEnabled(account)
    /\ \/ /\ ~AccountInUse(account.id)
          /\ accounts' =
               [a \in 1..Len(accounts) |->
                  IF /\ a = account.id
                     /\ accounts[a].company_id = c.company
                     /\ ~accounts[a].is_default
                  THEN NoAccount ELSE accounts[a]]
          /\ chart' = [chart EXCEPT ![s].fetching = TRUE]
       \/ UNCHANGED <<accounts, chart>>
    /\ UNCHANGED <<invoices, invoice_items, expenses, invForm, expForm,
                   report, calc, gstReport, company_profiles, provider, invoiceList, auth>>

\* the user leaves the page
ChartUnmount(s) ==
    /\ chart[s].pc = "mounted"
    /\ chart' = [chart EXCEPT ![s] = ChartUnmounted(s)]
    /\ UNCHANGED <<invoices, invoice_items, expenses, accounts, invForm, expForm,
                   report, calc, gstReport, company_profiles, provider, invoiceList, auth>>

(***************************************************************************)
(* CompanyProvider.createCompanyProfile                                    *)
(***************************************************************************)
Users == {"u1", "u2", "u3"}

\* gen_random_uuid(): the id of the n-th company profile
CompanyIds == <<"A", "B", "C", "D">>

NoCompany == "none"

IdleProvider ==
    [pc |-> "idle", companyProfile |-> NoCompany, created |-> NoCompany,
     returned |-> "none"]

\* lines 76-92: createCompanyProfile is called for a signed-in user without a
\* company (CompanySettings creates only then); the insert is sent
createCompanyProfile(u) ==
    /\ provider[u].pc = "idle"
    /\ provider[u].companyProfile = NoCompany
    /\ provider' = [provider EXCEPT ![u].pc = "insert", ![u].returned = "none"]
    /\ UNCHANGED <<invoices, invoice_items, expenses, accounts, invForm, expForm,
                   report, calc, gstReport, chart, company_profiles, invoiceList, auth>>

\* lines 88-94, 104: the insert into company_profiles answers
CompanyInsert(u) ==
    /\ provider[u].pc = "insert"
    /\ \/ /\ Len(company_profiles) < Len(CompanyIds)
          /\ company_profiles' = Append(company_profiles,
                [id |-> CompanyIds[Len(company_profiles) + 1], user_id |-> u])
          /\ provider' = [provider EXCEPT
                            ![u].pc = "rpc",
                            ![u].created = CompanyIds[Len(company_profiles) + 1]]
       \/ /\ provider' = [provider EXCEPT ![u].pc = "idle", ![u].returned = "error"]
          /\ UNCHANGED company_profiles
    /\ UNCHANGED <<invoices, invoice_items, expenses, accounts, invForm, expForm,
                   report, calc, gstReport, chart, invoiceList, auth>>

\* lines 96-111: the rpc create_default_accounts answers: the six accounts
\* are inserted; or none is and the answer holds an error, which is not
\* looked at; or the call throws and the catch returns the error
CompanyDefaultAccounts(u) ==
    /\ provider[u].pc = "rpc"
    /\ \/ /\ accounts' = accounts \o create_default_accounts(provider[u].created)
          /\ provider' = [provider EXCEPT
                            ![u].pc = "idle",
                            ![u].companyProfile = provider[u].created,
                            ![u].returned = "created"]
       \/ /\ UNCHANGED accounts
          /\ provider' = [provider EXCEPT
                            ![u].pc = "idle",
                            ![u].companyProfile = provider[u].created,
                            ![u].returned = "created"]
       \/ /\ UNCHANGED accounts
          /\ provider' = [provider EXCEPT ![u].pc = "idle", ![u].returned = "error"]
    /\ UNCHANGED <<invoices, invoice_items, expenses, invForm, expForm,
                   report, calc, gstReport, chart, company_profiles, invoiceList, auth>>

(***************************************************************************)
(* AuthProvider (user, signOut) and CompanyProvider (the effect on user,   *)
(* loadCompanyProfile) of one browser                                      *)
(***************************************************************************)
MaxFetches == 3

NoUser == "none"
NoProfile == [id |-> NoCompany, user_id |-> NoUser]

\* useState(null), useState(null), useState(true); the effect of the first
\* render finds no user: setCompanyProfile(null), setLoading(false)
SignedOut ==
    [user |-> NoUser, companyProfile |-> NoProfile, loading |-> FALSE,
     fetches |-> <<>>]

\* lib/supabase.ts lines 93-106: from company_profiles select * eq(user_id)
\* single(); the row of the user, or null
getUserCompanyProfile(userId) ==
    IF \E c \in 1..Len(company_profiles) : company_profiles[c].user_id = userId
    THEN company_profiles[CHOOSE c \in 1..Len(company_profiles) :
                             company_profiles[c].user_id = userId]
    ELSE NoProfile

\* lines 22-41: the effect on [user]: with a user, setLoading(true) and
\* getUserCompanyProfile(user.id) is called; with none,
\* setCompanyProfile(null) and setLoading(false).  A call under way for an
\* earlier user goes on.
UserEffect(state, user) ==
    IF user # NoUser
    THEN [state EXCEPT !.user = user, !.loading = TRUE,
                       !.fetches = Append(@, user)]
    ELSE [state EXCEPT !.user = user, !.companyProfile = NoProfile,
                       !.loading = FALSE]

\* signIn and checkAuth: setUser(the user of the session), from the sign-in
\* page, which is shown to no signed-in user
AuthSignIn(u) ==
    /\ auth.user = NoUser
    /\ Len(auth.fetches) < MaxFetches
    /\ auth' = UserEffect(auth, u)
    /\ UNCHANGED <<invoices, invoice_items, expenses, accounts, invForm, expForm,
                   report, calc, gstReport, chart, company_profiles, provider,
                   invoiceList>>

\* lines 218-225: signOut: supabase.auth.signOut(), setUser(null)
signOut ==
    /\ auth.user # NoUser
    /\ auth' = UserEffect(auth, NoUser)
    /\ UNCHANGED <<invoices, invoice_items, expenses, accounts, invForm, expForm,
                   report, calc, gstReport, chart, company_profiles, provider,
                   invoiceList>>

\* lines 27-33: the k-th call of getUserCompanyProfile under way answers:
\* setCompanyProfile(profile), the row or, on an error, null; then
\* setLoading(false)
loadCompanyProfile(k) ==
    /\ k \in 1..Len(auth.fetches)
    /\ \E profile \in {getUserCompanyProfile(auth.fetches[k]), NoProfile} :
          auth' = [auth EXCEPT
                     !.companyProfile = profile,
                     !.loading = FALSE,
                     !.fetches = SubSeq(@, 1, k - 1) \o SubSeq(@, k + 1, Len(@))]
    /\ UNCHANGED <<invoices, invoice_items, expenses, accounts, invForm, expForm,
                   report, calc, gstReport, chart, company_profiles, provider,
                   invoiceList>>

(***************************************************************************)
(* Initial state: empty tables but for the default accounts of the two     *)
(* companies, every form idle, the report page not shown                   *)
(***************************************************************************)
InitStore ==
    /\ invoices = <<>>
    /\ invoice_items = <<>>
    /\ expenses = <<>>
    /\ accounts = create_default_accounts("A") \o create_default_accounts("B")
    /\ company_profiles = <<[id |-> "A", user_id |-> "u1"],
                            [id |-> "B", user_id |-> "u2"]>>

InitForms ==
    /\ invForm = [s \in Sessions |-> IdleInvoiceForm(s)]
    /\ expForm = [s \in Sessions |-> IdleExpenseForm(s)]
    /\ report = Unmounted
    /\ gstReport = GstUnmounted
    /\ chart = [s \in Sessions |-> ChartUnmounted(s)]
    /\ invoiceList = [s \in Sessions |-> InvoicesUnmounted(s)]
    /\ auth = SignedOut
    /\ provider = [u \in Users |->
                     [IdleProvider EXCEPT
                        !.companyProfile = IF u = "u3" THEN NoCompany
                                           ELSE IF u = "u1" THEN "A" ELSE "B"]]

Init == InitStore /\ InitForms /\ calc = NoCalc

(***************************************************************************)
(* SpecCalc: the pure GST computations over every input                    *)
(***************************************************************************)
InitCalc == InitStore /\ InitForms /\ calc \in CalcInputs
NextCalc == ApplyItem \/ ApplyExpense
SpecCalc == InitCalc /\ [][NextCalc]_vars

(***************************************************************************)
(* Spec: two sessions of company A saving invoices, step by step           *)
(***************************************************************************)
\* 2 x 100.00 at 18 %, and 0.12 x 0.20 at 18 %
ItemA == [quantity |-> 200, rate |-> 10000, gst_rate_percentage |-> 18,
       product_service_id |-> Product]
ItemB == [quantity |-> 12, rate |-> 20, gst_rate_percentage |-> 18,
       product_service_id |-> Product]

SaveForms ==
    {[invoice_date |-> 20240215, place_of_supply_type |-> "Intra-State",
      items |-> <<ItemA>>],
     [invoice_date |-> 20240215, place_of_supply_type |-> "Inter-State",
      items |-> <<ItemB>>],
     [invoice_date |-> 20240215, place_of_supply_type |-> "Intra-State",
      items |-> <<ItemB, ItemA>>]}

InvoiceSessions == {1, 2}

\* rows the invoices table will still receive from creates in flight
PendingCreates ==
    Cardinality({s \in Sessions : invForm[s].pc = "insertInvoice"})

Next ==
    \E s \in InvoiceSessions :
        \/ \E data \in SaveForms :
              \/ \E id \in 1..MaxInvoices : InvoiceSubmit(s, id, data)
              \/ /\ Len(invoices) + PendingCreates < MaxInvoices
                 /\ InvoiceSubmit(s, 0, data)
        \/ InvoiceUpdate(s)
        \/ InvoiceDeleteItems(s)
        \/ InvoiceInsertItems(s)
        \/ InvoiceInsert(s)

Spec == Init /\ [][Next]_vars

(***************************************************************************)
(* SpecExpense: a session creating and editing expenses                    *)
(***************************************************************************)
\* 1.04 and 1000.00
SavedExpenseAmounts == {104, 100000}

ExpenseForms ==
    {e \in [amount_before_gst : SavedExpenseAmounts,
            gst_rate_applied_on_purchase : {0, 5, 18},
            place_of_supply_type_for_purchase : ExpenseSupplyTypes,
            expense_date : {20240215},
            expense_account_id : {2}] :
        \/ e.place_of_supply_type_for_purchase = "Not Applicable"
        \/ e.amount_before_gst * (100 + e.gst_rate_applied_on_purchase)
              <= IntMax \div (Cent \div 100)}

NextExpense ==
    \/ \E data \in ExpenseForms :
          \/ \E id \in 1..MaxExpenses : ExpenseSubmit(1, id, data)
          \/ /\ Len(expenses) < MaxExpenses
             /\ ExpenseSubmit(1, 0, data)
    \/ ExpenseSave(1)

SpecExpense == Init /\ [][NextExpense]_vars

(***************************************************************************)
(* SpecReport: the Profit & Loss page over tables of invoices of the two   *)
(* companies, as saved from the forms, and their status changes            *)
(***************************************************************************)
Todays == {[y |-> 2024, m |-> 2, d |-> 15], [y |-> 2024, m |-> 3, d |-> 10]}

ItemC == [quantity |-> 1, rate |-> 10000, gst_rate_percentage |-> 18,
       product_service_id |-> Product]

\* 2 x 100.00 and 0.01 x 100.00 at 18 %, dated around February 2024
ReportForms ==
    {[invoice_date |-> 20240131, place_of_supply_type |-> "Intra-State",
      items |-> <<ItemA>>],
     [invoice_date |-> 20240201, place_of_supply_type |-> "Intra-State",
      items |-> <<ItemC>>],
     [invoice_date |-> 20240229, place_of_supply_type |-> "Inter-State",
      items |-> <<ItemA>>],
     [invoice_date |-> 20240301, place_of_supply_type |-> "Intra-State",
      items |-> <<ItemC>>]}

\* the invoices row and the invoice_items rows a successful create of the
\* form data leaves (InvoiceSubmit, InvoiceInsert, InvoiceInsertItems)
CreatedInvoice(company, data) ==
    LET items == ComputeItems(data.items, data.place_of_supply_type)
    IN  [company_id |-> company,
         invoice_date |-> data.invoice_date,
         place_of_supply_type |-> data.place_of_supply_type,
         status |-> "Draft",
         sub_total_amount |-> Round2(subTotal(items)),
         total_gst_amount |-> Round2(totalGst(items)),
         total_invoice_amount |-> Round2(subTotal(items) + totalGst(items))]

CreatedItems(id, data) ==
    LET items == ComputeItems(data.items, data.place_of_supply_type)
    IN  [i \in 1..Len(items) |->
           [invoice_id |-> id,
            product_service_id |-> items[i].product_service_id,
            quantity |-> items[i].quantity,
            rate |-> items[i].rate,
            gst_rate_percentage |-> items[i].gst_rate_percentage,
            item_total_amount |-> Round2(items[i].item_total_amount),
            cgst_amount |-> Round2(items[i].cgst_amount),
            sgst_amount |-> Round2(items[i].sgst_amount),
            igst_amount |-> Round2(items[i].igst_amount),
            item_gst_total |-> Round2(items[i].item_gst_total)]]

\* the creates that filled the tables: who created which form, in order
ReportCreates ==
    UNION {[1..n -> Companies \X ReportForms] : n \in 0..MaxReportInvoices}

\* the expenses row a successful create of the form data leaves
\* (ExpenseSubmit, ExpenseSave)
CreatedExpense(company, data) ==
    LET e == ExpenseData(company, data)
    IN  [company_id |-> e.company_id,
         expense_date |-> e.expense_date,
         expense_account_id |-> e.expense_account_id,
         amount_before_gst |-> Round2(e.amount_before_gst),
         gst_rate_applied_on_purchase |-> e.gst_rate_applied_on_purchase,
         gst_paid_amount |-> Round2(e.gst_paid_amount),
         total_expense_amount |-> Round2(e.total_expense_amount),
         place_of_supply_type_for_purchase |-> e.place_of_supply_type_for_purchase,
         cgst_input_credit |-> Round2(e.cgst_input_credit),
         sgst_input_credit |-> Round2(e.sgst_input_credit),
         igst_input_credit |-> Round2(e.igst_input_credit)]

\* the Expense account among the default accounts of a company, as Init
\* seeds them
DefaultExpenseAccount(company) == IF company = "A" THEN 2 ELSE 8

\* 500.00 at 18 % on the last day of February 2024, 1.00 on 1 March
ReportExpenseForms ==
    {[amount_before_gst |-> 50000, gst_rate_applied_on_purchase |-> 18,
      place_of_supply_type_for_purchase |-> "Intra-State",
      expense_date |-> 20240229],
     [amount_before_gst |-> 100, gst_rate_applied_on_purchase |-> 0,
      place_of_supply_type_for_purchase |-> "Not Applicable",
      expense_date |-> 20240301]}

\* the form data with the account chosen in the select of the form
WithAccount(data, account) ==
    [amount_before_gst |-> data.amount_before_gst,
     gst_rate_applied_on_purchase |-> data.gst_rate_applied_on_purchase,
     place_of_supply_type_for_purchase |-> data.place_of_supply_type_for_purchase,
     expense_date |-> data.expense_date,
     expense_account_id |-> account]

ReportExpenseCreates ==
    UNION {[1..n -> Companies \X ReportExpenseForms] : n \in 0..MaxReportExpenses}

InitReport ==
    /\ \E creates \in ReportCreates :
          /\ invoices = [i \in 1..Len(creates) |->
                            CreatedInvoice(creates[i][1], creates[i][2])]
          /\ invoice_items = [i \in 1..Len(creates) |->
                            CreatedItems(i, creates[i][2])]
    /\ \E creates \in ReportExpenseCreates :
          expenses = [i \in 1..Len(creates) |->
                        CreatedExpense(creates[i][1],
                            WithAccount(creates[i][2],
                                        DefaultExpenseAccount(creates[i][1])))]
    /\ accounts = create_default_accounts("A") \o create_default_accounts("B")
    /\ company_profiles = <<[id |-> "A", user_id |-> "u1"],
                            [id |-> "B", user_id |-> "u2"]>>
    /\ InitForms
    /\ calc = NoCalc

NextReport ==
    \/ \E c \in Companies, i \in 1..MaxReportInvoices, st \in {"Sent", "Paid"} :
          updateInvoiceStatus(c, i, st)
    \/ \E c \in Companies, today \in Todays : ReportMount(c, today)
    \/ \E r \in 1..Len(report.runs) :
          \/ ReportSales(r)
          \/ ReportAccounts(r)
          \/ \E k \in 1..Len(report.runs[r].fetched) : ReportExpenseAnswer(r, k)
          \/ ReportExpenses(r)
    \/ ReportUnmount

SpecReport == InitReport /\ [][NextReport]_vars

(***************************************************************************)
(* SpecGst: the GST summary page over tables of invoices and expenses of   *)
(* the two companies, as saved from the forms, and the status changes      *)
(***************************************************************************)
\* company A has added an Expense account, Rent, to its default accounts
RentAccount ==
    [company_id |-> "A", account_name |-> "Rent", account_type |-> "Expense",
     is_default |-> FALSE]

SeededAccounts ==
    create_default_accounts("A") \o create_default_accounts("B") \o <<RentAccount>>

\* the id of the added account in SeededAccounts
RentAccountId == Len(SeededAccounts)

GstForms ==
    {[invoice_date |-> 20240131, place_of_supply_type |-> "Inter-State",
      items |-> <<ItemC>>],
     [invoice_date |-> 20240215, place_of_supply_type |-> "Intra-State",
      items |-> <<ItemA>>],
     [invoice_date |-> 20240229, place_of_supply_type |-> "Inter-State",
      items |-> <<ItemA, ItemC>>]}

GstCreates ==
    UNION {[1..n -> Companies \X GstForms] : n \in 0..MaxReportInvoices}

\* 400.00 at 10 % Intra-State, 100.00 at 18 % Inter-State, 1.00 untaxed
GstExpenseForms ==
    {[amount_before_gst |-> 40000, gst_rate_applied_on_purchase |-> 10,
      place_of_supply_type_for_purchase |-> "Intra-State",
      expense_date |-> 20240201],
     [amount_before_gst |-> 10000, gst_rate_applied_on_purchase |-> 18,
      place_of_supply_type_for_purchase |-> "Inter-State",
      expense_date |-> 20240229],
     [amount_before_gst |-> 100, gst_rate_applied_on_purchase |-> 18,
      place_of_supply_type_for_purchase |-> "Intra-State",
      expense_date |-> 20240301]}

\* who recorded which expense on which account: B on its default Expense
\* account, A on its default one or on Rent
GstExpenseCreate ==
    {<<c, WithAccount(f, a)>> :
        c \in Companies, f \in GstExpenseForms,
        a \in {DefaultExpenseAccount("A"), DefaultExpenseAccount("B"), RentAccountId}}

GstExpenseCreates ==
    {creates \in UNION {[1..n -> GstExpenseCreate] : n \in 0..MaxGstExpenses} :
        \A i \in 1..Len(creates) :
            SeededAccounts[creates[i][2].expense_account_id].company_id = creates[i][1]}

InitGst ==
    /\ \E creates \in GstCreates :
          /\ invoices = [i \in 1..Len(creates) |->
                            CreatedInvoice(creates[i][1], creates[i][2])]
          /\ invoice_items = [i \in 1..Len(creates) |->
                            CreatedItems(i, creates[i][2])]
    /\ \E creates \in GstExpenseCreates :
          expenses = [i \in 1..Len(creates) |->
                        CreatedExpense(creates[i][1], creates[i][2])]
    /\ accounts = SeededAccounts
    /\ company_profiles = <<[id |-> "A", user_id |-> "u1"],
                            [id |-> "B", user_id |-> "u2"]>>
    /\ InitForms
    /\ calc = NoCalc

GstTodays == {[y |-> 2024, m |-> 2, d |-> 29]}

NextGst ==
    \/ \E c \in Companies, i \in 1..MaxReportInvoices, st \in {"Sent", "Paid"} :
          updateInvoiceStatus(c, i, st)
    \/ \E c \in Companies, today \in GstTodays : GstMount(c, today)
    \/ \E r \in 1..Len(gstReport.runs) :
          \/ GstInvoices(r)
          \/ GstExpenses(r)
    \/ GstUnmount

SpecGst == InitGst /\ [][NextGst]_vars

(***************************************************************************)
(* SpecPeriod: both report pages of company A, one shown at a time, with   *)
(* their Previous and Next buttons, over tables that stay as they are      *)
(***************************************************************************)
\* 2 x 100.00 Intra-State, sent, and a draft of 0.01 x 100.00
SeededInvoiceForms ==
    <<[invoice_date |-> 20240215, place_of_supply_type |-> "Intra-State",
       items |-> <<ItemA>>],
      [invoice_date |-> 20240229, place_of_supply_type |-> "Inter-State",
       items |-> <<ItemC>>]>>

SeededInvoices ==
    <<[CreatedInvoice("A", SeededInvoiceForms[1]) EXCEPT !.status = "Sent"],
      CreatedInvoice("A", SeededInvoiceForms[2])>>

SeededItems ==
    [i \in 1..Len(SeededInvoiceForms) |-> CreatedItems(i, SeededInvoiceForms[i])]

\* 400.00 on the default Expense account, 100.00 and 1.00 on Rent
SeededExpenses ==
    <<CreatedExpense("A",
        [amount_before_gst |-> 40000, gst_rate_applied_on_purchase |-> 10,
         place_of_supply_type_for_purchase |-> "Intra-State",
         expense_date |-> 20240201,
         expense_account_id |-> DefaultExpenseAccount("A")]),
      CreatedExpense("A",
        [amount_before_gst |-> 10000, gst_rate_applied_on_purchase |-> 18,
         place_of_supply_type_for_purchase |-> "Inter-State",
         expense_date |-> 20240229,
         expense_account_id |-> RentAccountId]),
      CreatedExpense("A",
        [amount_before_gst |-> 100, gst_rate_applied_on_purchase |-> 18,
         place_of_supply_type_for_purchase |-> "Intra-State",
         expense_date |-> 20240301,
         expense_account_id |-> RentAccountId])>>

InitPeriod ==
    /\ invoices = SeededInvoices
    /\ invoice_items = SeededItems
    /\ expenses = SeededExpenses
    /\ accounts = SeededAccounts
    /\ company_profiles = <<[id |-> "A", user_id |-> "u1"],
                            [id |-> "B", user_id |-> "u2"]>>
    /\ InitForms
    /\ calc = NoCalc

\* the days the pages are opened on
PeriodTodays == {[y |-> 2024, m |-> 1, d |-> 31], [y |-> 2023, m |-> 3, d |-> 15]}

\* the months the buttons are followed to: February to April 2023 and
\* November 2023 to March 2024
PeriodMonths ==
    {[y |-> 2023, m |-> 2], [y |-> 2023, m |-> 3], [y |-> 2023, m |-> 4],
     [y |-> 2023, m |-> 11], [y |-> 2023, m |-> 12], [y |-> 2024, m |-> 1],
     [y |-> 2024, m |-> 2], [y |-> 2024, m |-> 3]}

MonthBefore(date) == MonthOf(MonthIndex(date) - 1)
MonthAfter(date) == MonthOf(MonthIndex(date) + 1)

NextPeriod ==
    \/ \E today \in PeriodTodays :
          /\ gstReport.pc = "unmounted"
          /\ ReportMount("A", today)
    \/ /\ Len(report.runs) < MaxRuns
       /\ MonthBefore(report.startDate) \in PeriodMonths
       /\ previousMonth
    \/ /\ Len(report.runs) < MaxRuns
       /\ MonthAfter(report.startDate) \in PeriodMonths
       /\ nextMonth
    \/ \E r \in 1..Len(report.runs) :
          \/ ReportSales(r)
          \/ ReportAccounts(r)
          \/ \E k \in 1..Len(report.runs[r].fetched) : ReportExpenseAnswer(r, k)
          \/ ReportExpenses(r)
    \/ ReportUnmount
    \/ \E today \in PeriodTodays :
          /\ report.pc = "unmounted"
          /\ GstMount("A", today)
    \/ /\ Len(gstReport.runs) < MaxRuns
       /\ MonthBefore(gstReport.startDate) \in PeriodMonths
       /\ GstPreviousMonth
    \/ /\ Len(gstReport.runs) < MaxRuns
       /\ MonthAfter(gstReport.startDate) \in PeriodMonths
       /\ GstNextMonth
    \/ \E r \in 1..Len(gstReport.runs) :
          \/ GstInvoices(r)
          \/ GstExpenses(r)
    \/ GstUnmount

SpecPeriod == InitPeriod /\ [][NextPeriod]_vars

(***************************************************************************)
(* Properties of the GST computations (SpecCalc)                           *)
(***************************************************************************)
\* base x rate / 100 of an exact base amount
GstOf(base, rate) == (base \div 100) * rate

\* the base amount of the computation in calc: quantity x rate, or the
\* expense's amount before GST
CalcBase ==
    IF calc.kind = "item"
    THEN calc.item.quantity * calc.item.rate * (Cent \div 100)
    ELSE FromHundredths(calc.expense.amount_before_gst)

CalcRate ==
    IF calc.kind = "item"
    THEN calc.item.gst_rate_percentage
    ELSE calc.expense.gst_rate_applied_on_purchase

CalcSupply ==
    IF calc.kind = "item"
    THEN calc.place
    ELSE calc.expense.place_of_supply_type_for_purchase

CalcCgst == IF calc.kind = "item" THEN calc.out.cgst_amount ELSE calc.out.cgstInputCredit
CalcSgst == IF calc.kind = "item" THEN calc.out.sgst_amount ELSE calc.out.sgstInputCredit
CalcIgst == IF calc.kind = "item" THEN calc.out.igst_amount ELSE calc.out.igstInputCredit
CalcGstTotal == IF calc.kind = "item" THEN calc.out.item_gst_total ELSE calc.out.gstPaidAmount

\* C5, as claimed: for every supply type the operation accepts, Not
\* Applicable included, cgst + sgst + igst = baseAmount x ratePercent / 100.
C5_SumIsGstForEverySupplyType ==
    calc.done => CalcCgst + CalcSgst + CalcIgst = GstOf(CalcBase, CalcRate)

\* C5, amended: for Intra-State and Inter-State (invoice line items and
\* expenses) cgst + sgst + igst = baseAmount x ratePercent / 100; for an
\* expense that is Not Applicable the sum is 0 whatever the rate.
C5_SumIsGstUnlessNotApplicable ==
    calc.done =>
        /\ CalcSupply \in {"Intra-State", "Inter-State"} =>
              CalcCgst + CalcSgst + CalcIgst = GstOf(CalcBase, CalcRate)
        /\ CalcSupply = "Not Applicable" =>
              CalcCgst + CalcSgst + CalcIgst = 0

\* an Intra-State expense of 1000.00 at 5 %: the credits sum to 50.00
C5_Witness ==
    /\ calc.kind = "expense"
    /\ calc.done
    /\ calc.expense.amount_before_gst = 100000
    /\ calc.expense.gst_rate_applied_on_purchase = 5
    /\ calc.expense.place_of_supply_type_for_purchase = "Intra-State"
    /\ CalcCgst + CalcSgst + CalcIgst = 5000 * Cent

\* C6: the split follows the supply type, for line items and expenses:
\* Intra-State gives cgst = sgst = gstTotal / 2 and igst = 0, Inter-State
\* gives igst = gstTotal and cgst = sgst = 0, with gstTotal = base x rate /
\* 100; 2 x 100.00 at 18 % gives 18 / 18 / 0 and 0 / 0 / 36, grand total 236.
C6_SplitFollowsSupplyType ==
    calc.done =>
        /\ CalcSupply # "Not Applicable" => CalcGstTotal = GstOf(CalcBase, CalcRate)
        /\ CalcSupply = "Intra-State" =>
              /\ CalcCgst = CalcSgst
              /\ CalcCgst + CalcSgst = CalcGstTotal
              /\ CalcIgst = 0
        /\ CalcSupply = "Inter-State" =>
              /\ CalcIgst = CalcGstTotal
              /\ CalcCgst = 0
              /\ CalcSgst = 0
        /\ (calc.kind = "item" /\ calc.item = ItemA) =>
              /\ totalAmount(<<calc.out>>) = 23600 * Cent
              /\ calc.place = "Intra-State" =>
                    <<CalcCgst, CalcSgst, CalcIgst>> = <<1800 * Cent, 1800 * Cent, 0>>
              /\ calc.place = "Inter-State" =>
                    <<CalcCgst, CalcSgst, CalcIgst>> = <<0, 0, 3600 * Cent>>

\* 2 x 100.00 at 18 %, Inter-State, has been computed: igst 36.00
C6_Witness ==
    /\ calc.kind = "item"
    /\ calc.done
    /\ calc.item = ItemA
    /\ calc.place = "Inter-State"
    /\ calc.out.igst_amount = 3600 * Cent
    /\ calc.out.cgst_amount = 0

\* C7: a Not Applicable expense has gstPaidAmount 0 and the three input
\* credits 0 at every rate and amount, and its total is amountBeforeGst.
C7_NotApplicableIsZero ==
    (calc.kind = "expense" /\ calc.done
        /\ calc.expense.place_of_supply_type_for_purchase = "Not Applicable") =>
        /\ calc.out.gstPaidAmount = 0
        /\ calc.out.cgstInputCredit = 0
        /\ calc.out.sgstInputCredit = 0
        /\ calc.out.igstInputCredit = 0
        /\ calc.out.totalAmount = FromHundredths(calc.expense.amount_before_gst)

\* 1000.00 at 5 %, Not Applicable: GST paid 0, total 1000.00
C7_Witness ==
    /\ calc.kind = "expense"
    /\ calc.done
    /\ calc.expense.amount_before_gst = 100000
    /\ calc.expense.gst_rate_applied_on_purchase = 5
    /\ calc.expense.place_of_supply_type_for_purchase = "Not Applicable"
    /\ calc.out.gstPaidAmount = 0
    /\ calc.out.totalAmount = 100000 * Cent

CgstSgstActive == CalcCgst # 0 /\ CalcSgst # 0
IgstActive == CalcIgst # 0

\* C8, as claimed: for every computed line item exactly one tax group is
\* active: cgst and sgst nonzero with igst 0, or igst nonzero with cgst and
\* sgst 0.
C8_ExactlyOneGroupActive ==
    (calc.kind = "item" /\ calc.done) =>
        \/ CgstSgstActive /\ CalcIgst = 0
        \/ IgstActive /\ CalcCgst = 0 /\ CalcSgst = 0

\* C8, amended: the two groups are never both active; exactly one is active
\* when the rate and the GST rate are both above 0, and all three amounts
\* are 0 when the rate or the GST rate is 0.
C8_AtMostOneGroupActive ==
    (calc.kind = "item" /\ calc.done) =>
        /\ ~((CalcCgst # 0 \/ CalcSgst # 0) /\ IgstActive)
        /\ (calc.item.rate > 0 /\ calc.item.gst_rate_percentage > 0) =>
              \/ calc.place = "Intra-State" /\ CgstSgstActive /\ CalcIgst = 0
              \/ calc.place = "Inter-State" /\ IgstActive /\ CalcCgst = 0 /\ CalcSgst = 0
        /\ (calc.item.rate = 0 \/ calc.item.gst_rate_percentage = 0) =>
              CalcCgst = 0 /\ CalcSgst = 0 /\ CalcIgst = 0

\* a line item at rate 0 has been computed: no group is active
C8_Witness ==
    /\ calc.kind = "item"
    /\ calc.done
    /\ calc.item.rate = 0
    /\ calc.item.gst_rate_percentage = 18
    /\ ~CgstSgstActive
    /\ ~IgstActive

(***************************************************************************)
(* Properties of the invoice save (Spec)                                   *)
(***************************************************************************)
NoInvoiceSaveInFlight == \A s \in Sessions : invForm[s].pc = "idle"

\* C1: once every save attempt has finished, in success or in an error at
\* any storage step, the stored totals of every invoice are the totals of
\* the line items stored for it: sub_total_amount = sum of item_total_amount
\* and total_gst_amount = sum of item_gst_total.
C1_TotalsMatchStoredItems ==
    NoInvoiceSaveInFlight =>
        \A i \in 1..Len(invoices) :
            /\ invoices[i].sub_total_amount =
                  SumField(invoice_items[i], "item_total_amount")
            /\ invoices[i].total_gst_amount =
                  SumField(invoice_items[i], "item_gst_total")

\* the storage calls of kind op that precede position k of a log
Before(log, k, op) == {j \in 1..(k - 1) : log[j] = op}

\* C2: in the save of an existing invoice the old items are deleted and the
\* new ones inserted before the invoice row's totals are written; the
\* totals write is never the first storage step.
C2_ItemsPersistedBeforeTotals ==
    \A s \in Sessions :
        invForm[s].id # 0 =>
            \A k \in 1..Len(invForm[s].log) :
                invForm[s].log[k] = "update" =>
                    /\ k # 1
                    /\ \E d \in Before(invForm[s].log, k, "delete") :
                         \E n \in Before(invForm[s].log, k, "insert") : d < n

\* C3: for every saved invoice the stored total_invoice_amount is the stored
\* sub_total_amount plus the stored total_gst_amount, exactly.
C3_StoredGrandTotalIsSum ==
    \A i \in 1..Len(invoices) :
        invoices[i].total_invoice_amount =
            invoices[i].sub_total_amount + invoices[i].total_gst_amount

\* the stored state of invoice i is what the save held by form f leaves
LeftBySave(i, f) ==
    /\ invoice_items[i] \in StoredItems(i, f.items)
    /\ [sub_total_amount |-> invoices[i].sub_total_amount,
        total_gst_amount |-> invoices[i].total_gst_amount,
        total_invoice_amount |-> invoices[i].total_invoice_amount]
          \in StoredTotals(f)

\* C4: when two edit-saves of the same invoice, interleaved in any order,
\* have both finished without error, the stored items are the item set of
\* one of the two saves and the stored totals are those of that same set.
C4_ConcurrentEditsLeaveOneSave ==
    \A i \in 1..Len(invoices) :
        (\A s \in InvoiceSessions :
            /\ invForm[s].pc = "idle"
            /\ invForm[s].outcome = "saved"
            /\ invForm[s].id = i) =>
        \E s \in InvoiceSessions : LeftBySave(i, invForm[s])

(***************************************************************************)
(* Properties of the expense save (SpecExpense)                            *)
(***************************************************************************)
\* the row the last finished save of the form wrote
SavedExpenseRow(f) == IF f.id = 0 THEN Len(expenses) ELSE f.id

\* C9: every stored expense has total_expense_amount = amount_before_gst +
\* gst_paid_amount and gst_paid_amount = cgst_input_credit +
\* sgst_input_credit + igst_input_credit, all derived from the latest save.
C9_StoredExpenseConsistent ==
    /\ \A i \in 1..Len(expenses) :
          /\ expenses[i].total_expense_amount =
                expenses[i].amount_before_gst + expenses[i].gst_paid_amount
          /\ expenses[i].gst_paid_amount =
                expenses[i].cgst_input_credit + expenses[i].sgst_input_credit
                    + expenses[i].igst_input_credit
    /\ \A s \in Sessions :
          (expForm[s].pc = "idle" /\ expForm[s].outcome = "saved") =>
              expenses[SavedExpenseRow(expForm[s])] \in StoredExpense(expForm[s].expenseData)

(***************************************************************************)
(* Properties of the Profit & Loss sales total (SpecReport)                *)
(***************************************************************************)
\* the invoices of the company on the page that count as sales of the period
\* a run of fetchReportData was called for
NonDraftInPeriod(run) ==
    {i \in 1..Len(invoices) :
        /\ invoices[i].company_id = report.company
        /\ invoices[i].status \in {"Sent", "Paid", "Overdue"}
        /\ format(run.startDate) <= invoices[i].invoice_date
        /\ invoices[i].invoice_date <= format(run.endDate)}

DraftInPeriod(run) ==
    {i \in 1..Len(invoices) :
        /\ invoices[i].company_id = report.company
        /\ invoices[i].status = "Draft"
        /\ format(run.startDate) <= invoices[i].invoice_date
        /\ invoices[i].invoice_date <= format(run.endDate)}

\* the step in which the sales query of the r-th run in flight answers
SalesAnswered(r) ==
    /\ r \in 1..Len(report.runs)
    /\ Len(report'.runs) = Len(report.runs)
    /\ report.runs[r].pc = "sales"
    /\ report'.runs[r].pc = "accounts"

\* C10: the totalSales the sales query sets is the sum of sub_total_amount
\* over exactly the company's invoices that are not Draft and are dated
\* within [startDate, endDate], both bounds included; Drafts add nothing.
C10_TotalSalesIsNonDraftInPeriod ==
    [][\A r \in 1..MaxRuns :
          SalesAnswered(r) =>
              report'.totalSales =
                  SumOver(invoices, NonDraftInPeriod(report.runs[r]),
                          "sub_total_amount")]_vars

\* the page shows sales of 1.00 for February 2024 from one invoice dated on
\* the first day of the period, while a Draft of the period is left out
C10_Witness ==
    /\ report.pc = "mounted"
    /\ report.startDate = [y |-> 2024, m |-> 2, d |-> 1]
    /\ report.endDate = [y |-> 2024, m |-> 2, d |-> 29]
    /\ Len(report.runs) = 1
    /\ report.runs[1].pc = "accounts"
    /\ Cardinality(NonDraftInPeriod(report.runs[1])) = 1
    /\ \E i \in NonDraftInPeriod(report.runs[1]) : invoices[i].invoice_date = 20240201
    /\ \E i \in DraftInPeriod(report.runs[1]) : invoices[i].sub_total_amount = 20000
    /\ report.totalSales = 100

(***************************************************************************)
(* Properties of the Profit & Loss net figure (SpecReport)                 *)
(***************************************************************************)
\* the expenses of the company on the page that are tagged to one of its
\* Expense accounts and dated within the period a run was called for
ExpensesInPeriod(run) ==
    {e \in 1..Len(expenses) :
        /\ expenses[e].company_id = report.company
        /\ expenses[e].expense_account_id \in ExpenseAccountIds(report.company)
        /\ format(run.startDate) <= expenses[e].expense_date
        /\ expenses[e].expense_date <= format(run.endDate)}

\* the step in which the r-th run in flight, all its expenses queries
\* answered, sets the lines of the page
ExpensesShown(r) ==
    /\ r \in 1..Len(report.runs)
    /\ report.runs[r].pc = "expenses"
    /\ report.runs[r].answered = 1..Len(report.runs[r].fetched)
    /\ report'.pc = "mounted"
    /\ report'.runs = RemoveRun(report.runs, r)

GstInvoicesInPeriod(run) ==
    {i \in 1..Len(invoices) :
        /\ invoices[i].company_id = gstReport.company
        /\ invoices[i].status \in {"Sent", "Paid", "Overdue"}
        /\ format(run.startDate) <= invoices[i].invoice_date
        /\ invoices[i].invoice_date <= format(run.endDate)}

\* all the expenses of the company on the page dated within the period
GstExpensesInPeriod(run) ==
    {e \in 1..Len(expenses) :
        /\ expenses[e].company_id = gstReport.company
        /\ format(run.startDate) <= expenses[e].expense_date
        /\ expenses[e].expense_date <= format(run.endDate)}

\* the line items of the invoices ids, as (invoice, position) pairs
LineItems(ids) ==
    UNION {{<<i, j>> : j \in 1..Len(invoice_items[i])} : i \in ids}

RECURSIVE SumLineItems(_, _)
SumLineItems(pairs, field) ==
    IF pairs = {} THEN 0
    ELSE LET p == CHOOSE x \in pairs : TRUE
         IN  invoice_items[p[1]][p[2]][field] + SumLineItems(pairs \ {p}, field)

\* the step in which the invoices query of the r-th run in flight answers
GstSalesAnswered(r) ==
    /\ r \in 1..Len(gstReport.runs)
    /\ Len(gstReport'.runs) = Len(gstReport.runs)
    /\ gstReport.runs[r].pc = "invoices"
    /\ gstReport'.runs[r].pc = "expenses"

\* the step in which the expenses query of the r-th run answers and the
\* summary is set
GstSummarySet(r) ==
    /\ r \in 1..Len(gstReport.runs)
    /\ gstReport.runs[r].pc = "expenses"
    /\ gstReport'.pc = "mounted"
    /\ gstReport'.runs = RemoveRun(gstReport.runs, r)
    /\ gstReport'.outcome = "loaded"

\* C12: each sales head (cgst, sgst, igst) of the GST summary is the sum of
\* that head over the line items of the in-range invoices that are not
\* Draft, and each input-credit head is the sum of that head over all the
\* in-range expenses of the company, whatever their account; the heads are
\* summed each on its own.
C12_GstHeadsAreSums ==
    [][\A r \in 1..MaxRuns :
          /\ GstSalesAnswered(r) =>
                LET items == LineItems(GstInvoicesInPeriod(gstReport.runs[r]))
                    sales == gstReport'.runs[r].salesSummary
                IN  /\ sales.cgst = SumLineItems(items, "cgst_amount")
                    /\ sales.sgst = SumLineItems(items, "sgst_amount")
                    /\ sales.igst = SumLineItems(items, "igst_amount")
          /\ GstSummarySet(r) =>
                LET ids == GstExpensesInPeriod(gstReport.runs[r])
                    purchases == gstReport'.summary.purchases
                IN  /\ gstReport'.summary.sales = gstReport.runs[r].salesSummary
                    /\ purchases.cgstInput = SumOver(expenses, ids, "cgst_input_credit")
                    /\ purchases.sgstInput = SumOver(expenses, ids, "sgst_input_credit")
                    /\ purchases.igstInput = SumOver(expenses, ids, "igst_input_credit")]_vars

\* February 2024 of company A: two invoices that are not Draft, with igst
\* 36.18 on three line items and cgst 18.00, and two expenses, one on the
\* default account and one on Rent, with input credits 20.00 / 20.00 / 18.00
C12_Witness ==
    /\ gstReport.pc = "mounted"
    /\ gstReport.company = "A"
    /\ gstReport.runs = <<>>
    /\ gstReport.summary.sales.cgst = 1800
    /\ gstReport.summary.sales.sgst = 1800
    /\ gstReport.summary.sales.igst = 3618
    /\ gstReport.summary.purchases.cgstInput = 2000
    /\ gstReport.summary.purchases.sgstInput = 2000
    /\ gstReport.summary.purchases.igstInput = 1800
    /\ \E e \in 1..Len(expenses) : expenses[e].expense_account_id = RentAccountId
    /\ \E e \in 1..Len(expenses) :
          expenses[e].expense_account_id = DefaultExpenseAccount("A")

\* the three heads of the net GST payable
GstHeads == {"cgst", "sgst", "igst"}
InputHead(h) ==
    CASE h = "cgst" -> "cgstInput" [] h = "sgst" -> "sgstInput" [] OTHER -> "igstInput"

\* C13: for each head, netPayable is salesGst.head minus
\* purchasesInputCredit.head with its sign kept: above 0 it is labelled
\* Payable, below 0 it is labelled Credit and shown with its magnitude,
\* never clamped to 0 (sales cgst 18 and input credit cgst 20 give -2).
C13_NetPayableKeepsSign ==
    \A h \in GstHeads :
        LET net == netGSTPayable[h] IN
        /\ net = gstReport.summary.sales[h] - gstReport.summary.purchases[InputHead(h)]
        /\ net > 0 => GstNetLabel(net) = "Payable" /\ GstNetShown(net) = net
        /\ net < 0 => GstNetLabel(net) = "Credit" /\ GstNetShown(net) = 0 - net
        /\ (gstReport.summary.sales[h] = 1800
              /\ gstReport.summary.purchases[InputHead(h)] = 2000) => net = 0 - 200

\* sales cgst 18.00 and input credit cgst 20.00: net cgst -2.00, a Credit
C13_Witness ==
    /\ gstReport.pc = "mounted"
    /\ gstReport.summary.sales.cgst = 1800
    /\ gstReport.summary.purchases.cgstInput = 2000
    /\ netGSTPayable.cgst = 0 - 200
    /\ GstNetLabel(netGSTPayable.cgst) = "Credit"
    /\ GstNetShown(netGSTPayable.cgst) = 200

(***************************************************************************)
(* Properties of the report runs and of the period (SpecPeriod)            *)
(***************************************************************************)
\* the lines are those of the company's Expense accounts, one line each, in
\* the order of the account names, each with the sum of its account's
\* expenses dated within the period of the run
LinesOf(lines, run) ==
    /\ {lines[k].account.id : k \in 1..Len(lines)} = ExpenseAccountIds(report.company)
    /\ Len(lines) = Cardinality(ExpenseAccountIds(report.company))
    /\ \A k \in 1..Len(lines) :
          /\ lines[k].account.account_name = accounts[lines[k].account.id].account_name
          /\ lines[k].total =
                SumOver(expenses,
                    {e \in ExpensesInPeriod(run) :
                        expenses[e].expense_account_id = lines[k].account.id},
                    "amount_before_gst")
          /\ \A l \in 1..Len(lines) :
                k < l => NameRank(lines[k].account.account_name)
                            < NameRank(lines[l].account.account_name)

\* the summary of the company's invoices and expenses of the period of a run
SummaryOf(run) ==
    [sales |->
        [taxableValue |-> SumOver(invoices, GstInvoicesInPeriod(run), "sub_total_amount"),
         cgst |-> SumLineItems(LineItems(GstInvoicesInPeriod(run)), "cgst_amount"),
         sgst |-> SumLineItems(LineItems(GstInvoicesInPeriod(run)), "sgst_amount"),
         igst |-> SumLineItems(LineItems(GstInvoicesInPeriod(run)), "igst_amount")],
     purchases |->
        [taxableValue |-> SumOver(expenses, GstExpensesInPeriod(run), "amount_before_gst"),
         cgstInput |-> SumOver(expenses, GstExpensesInPeriod(run), "cgst_input_credit"),
         sgstInput |-> SumOver(expenses, GstExpensesInPeriod(run), "sgst_input_credit"),
         igstInput |-> SumOver(expenses, GstExpensesInPeriod(run), "igst_input_credit")]]

\* C14: over tables that stay the same, what a run of the Profit & Loss or
\* of the GST summary sets is fixed by the company, the period and the
\* tables alone, so two runs for the same period set the same output: the
\* same totalSales, the same expense lines in the same order (that of the
\* account names) in whatever order the expenses queries of the accounts
\* answer, and the same summary.
C14_RunsAreDeterministic ==
    [][\A r \in 1..MaxRuns :
          /\ SalesAnswered(r) =>
                report'.totalSales =
                    SumOver(invoices, NonDraftInPeriod(report.runs[r]),
                            "sub_total_amount")
          /\ ExpensesShown(r) =>
                LinesOf(report'.expensesByAccount, report.runs[r])
          /\ GstSummarySet(r) =>
                gstReport'.summary = SummaryOf(gstReport.runs[r])]_vars

February2024 == [y |-> 2024, m |-> 2, d |-> 1]

\* the page shows the lines of February 2024 set by an earlier run,
\* Purchases/Direct Expenses 400.00 before Rent 100.00, while a second run
\* for February 2024 has the answer for Rent and not yet the one for
\* Purchases/Direct Expenses
C14_Witness ==
    /\ report.pc = "mounted"
    /\ report.startDate = February2024
    /\ Len(report.expensesByAccount) = 2
    /\ report.expensesByAccount[1].account.account_name = "Purchases/Direct Expenses"
    /\ report.expensesByAccount[1].total = 40000
    /\ report.expensesByAccount[2].account.account_name = "Rent"
    /\ report.expensesByAccount[2].total = 10000
    /\ \E r \in 1..Len(report.runs) :
          /\ report.runs[r].startDate = February2024
          /\ report.runs[r].pc = "expenses"
          /\ report.runs[r].answered = {2}
          /\ report.runs[r].results[2] = 10000

\* a period is a calendar month: from its first day to its last
IsCalendarMonth(startDate, endDate) ==
    /\ startDate.d = 1
    /\ endDate.y = startDate.y
    /\ endDate.m = startDate.m
    /\ endDate.m \in 1..12
    /\ endDate.d = CASE endDate.m \in {1, 3, 5, 7, 8, 10, 12} -> 31
                      [] endDate.m \in {4, 6, 9, 11} -> 30
                      [] endDate.m = 2 /\ endDate.y = 2024 -> 29
                      [] OTHER -> 28

\* C16: on both report pages, after any clicks on Previous and Next from
\* the initial period, startDate is the first and endDate the last day of
\* one and the same calendar month, and each click moves that month by
\* exactly one, over months of 28, 29, 30 and 31 days and over the turn of
\* the year.
C16_PeriodIsOneCalendarMonth ==
    /\ [](report.pc = "mounted" => IsCalendarMonth(report.startDate, report.endDate))
    /\ [](gstReport.pc = "mounted" =>
              IsCalendarMonth(gstReport.startDate, gstReport.endDate))
    /\ [][/\ previousMonth =>
               MonthIndex(report'.startDate) = MonthIndex(report.startDate) - 1
          /\ nextMonth =>
               MonthIndex(report'.startDate) = MonthIndex(report.startDate) + 1
          /\ GstPreviousMonth =>
               MonthIndex(gstReport'.startDate) = MonthIndex(gstReport.startDate) - 1
          /\ GstNextMonth =>
               MonthIndex(gstReport'.startDate) = MonthIndex(gstReport.startDate) + 1]_vars

\* opened on 15 March 2023, the Profit & Loss page has been taken back one
\* month, to the 28 days of February 2023
C16_Witness ==
    /\ report.pc = "mounted"
    /\ report.startDate = [y |-> 2023, m |-> 2, d |-> 1]
    /\ report.endDate = [y |-> 2023, m |-> 2, d |-> 28]
    /\ Len(report.runs) = 2
    /\ report.runs[1].startDate = [y |-> 2023, m |-> 3, d |-> 1]
    /\ report.runs[1].endDate = [y |-> 2023, m |-> 3, d |-> 31]

\* the period Previous leaves, and the one Next leaves, from a period
PeriodBefore(period) ==
    [startDate |-> startOfMonth(subMonths(period.startDate, 1)),
     endDate |-> endOfMonth(subMonths(period.endDate, 1))]
PeriodAfter(period) ==
    [startDate |-> startOfMonth(addMonths(period.startDate, 1)),
     endDate |-> endOfMonth(addMonths(period.endDate, 1))]

PeriodOf(page) == [startDate |-> page.startDate, endDate |-> page.endDate]

\* C17: from any period the pages reach, Next followed by Previous, and
\* Previous followed by Next, give back the same startDate and endDate.
C17_NavigationRoundTrip ==
    [][/\ nextMonth => PeriodBefore(PeriodOf(report')) = PeriodOf(report)
       /\ previousMonth => PeriodAfter(PeriodOf(report')) = PeriodOf(report)
       /\ GstNextMonth => PeriodBefore(PeriodOf(gstReport')) = PeriodOf(gstReport)
       /\ GstPreviousMonth => PeriodAfter(PeriodOf(gstReport')) = PeriodOf(gstReport)]_vars

\* opened on 31 January 2024, the GST summary has been taken on to February
\* and back: it shows 1 to 31 January 2024 again
C17_Witness ==
    /\ gstReport.pc = "mounted"
    /\ gstReport.startDate = [y |-> 2024, m |-> 1, d |-> 1]
    /\ gstReport.endDate = [y |-> 2024, m |-> 1, d |-> 31]
    /\ Len(gstReport.runs) = 2
    /\ gstReport.runs[1].startDate = February2024
    /\ gstReport.runs[1].endDate = [y |-> 2024, m |-> 2, d |-> 29]
    /\ gstReport.runs[2].startDate = [y |-> 2024, m |-> 1, d |-> 1]

(***************************************************************************)
(* SpecAggregate: the totals of an invoice form, in two orders of its      *)
(* items (CreateEditInvoice.onSubmit, lines 155-157, and the invoices row)  *)
(***************************************************************************)
MaxAggregateItems == 3

\* 0.01 x 0.10, 0.01 x 0.15 and 0.15 x 0.15 without GST, 2 x 100.00 at 18 %
AggregateItems ==
    {[quantity |-> 1, rate |-> 10, gst_rate_percentage |-> 0,
       product_service_id |-> Product],
     [quantity |-> 1, rate |-> 15, gst_rate_percentage |-> 0,
       product_service_id |-> Product],
     [quantity |-> 15, rate |-> 15, gst_rate_percentage |-> 0,
       product_service_id |-> Product],
     [quantity |-> 200, rate |-> 10000, gst_rate_percentage |-> 18,
       product_service_id |-> Product]}

\* the orders the rows of a form hold the same n items in
Orders(n) == {p \in [1..n -> 1..n] : \A i, j \in 1..n : p[i] = p[j] => i = j}

\* data.items with its rows in the order p
InOrder(items, p) == [i \in 1..Len(items) |-> items[p[i]]]

\* lines 155-157 on the computed items
Aggregate(items) ==
    [subTotal |-> subTotal(items), totalGst |-> totalGst(items),
     totalAmount |-> totalAmount(items)]

NoTotals == [sub_total_amount |-> 0 - 1, total_gst_amount |-> 0 - 1,
             total_invoice_amount |-> 0 - 1]

AggregateInputs ==
    {[kind |-> "aggregate", items |-> items, place |-> "Intra-State", order |-> p,
      saved |-> NoTotals, savedInOrder |-> NoTotals] :
        items \in [1..MaxAggregateItems -> AggregateItems],
        p \in Orders(MaxAggregateItems)}

\* the totals of the items in the order of the form, as the invoices row
\* keeps them: the reduce adds doubles, and where the exact sum is a tie
\* between two cents the double lies on one side of it or the other
AggregateSave ==
    /\ calc.kind = "aggregate"
    /\ calc.saved = NoTotals
    /\ \E t \in StoredTotals(Aggregate(ComputeItems(calc.items, calc.place))) :
          /\ InOrder(calc.items, calc.order) = calc.items /\ calc.savedInOrder # NoTotals
                => t = calc.savedInOrder
          /\ calc' = [calc EXCEPT !.saved = t]
    /\ UNCHANGED <<invoices, invoice_items, expenses, accounts, invForm, expForm, report, gstReport, chart, company_profiles, provider, invoiceList, auth>>

\* the totals of the same items in the order calc.order: the same rows in
\* the same order give the same doubles, another order adds them otherwise
AggregateSaveInOrder ==
    /\ calc.kind = "aggregate"
    /\ calc.savedInOrder = NoTotals
    /\ \E t \in StoredTotals(Aggregate(ComputeItems(InOrder(calc.items, calc.order),
                                                    calc.place))) :
          /\ InOrder(calc.items, calc.order) = calc.items /\ calc.saved # NoTotals
                => t = calc.saved
          /\ calc' = [calc EXCEPT !.savedInOrder = t]
    /\ UNCHANGED <<invoices, invoice_items, expenses, accounts, invForm, expForm, report, gstReport, chart, company_profiles, provider, invoiceList, auth>>

InitAggregate == InitStore /\ InitForms /\ calc \in AggregateInputs
NextAggregate == AggregateSave \/ AggregateSaveInOrder
SpecAggregate == InitAggregate /\ [][NextAggregate]_vars

\* C15: the totals of an invoice (subTotal, totalGst, totalAmount) are the
\* same for every order of the same line items: once the items are saved in
\* the order of the form and in any other order, the two invoices rows hold
\* the same three totals.
C15_AggregateSameInEveryOrder ==
    (calc.kind = "aggregate" /\ calc.saved # NoTotals /\ calc.savedInOrder # NoTotals)
        => calc.saved = calc.savedInOrder

(***************************************************************************)
(* SpecAccounts: the Chart of Accounts pages of the two sessions of         *)
(* company A, over the seeded tables of both companies                      *)
(***************************************************************************)
MaxAddedAccounts == 1

\* what is typed into the form of the modal: a name of no account yet, or
\* the name of a default account, and a type
AccountForms ==
    {[account_name |-> "Advertising", account_type |-> "Expense"],
     [account_name |-> "Sales", account_type |-> "Income"]}

\* the two sessions of company A
AccountSessions == {s \in Sessions : companyProfile(s) = "A"}

NextAccounts ==
    \E s \in AccountSessions :
        \/ ChartMount(s)
        \/ fetchAccounts(s)
        \/ openModal(s, NoEditing)
        \/ \E account \in chart[s].accounts : openModal(s, account)
        \/ closeModal(s)
        \/ \E data \in AccountForms :
              /\ chart[s].editingAccount = NoEditing
                    => Len(accounts) < Len(SeededAccounts) + MaxAddedAccounts
              /\ ChartOnSubmit(s, data)
        \/ \E account \in chart[s].accounts : deleteAccount(s, account)
        \/ ChartUnmount(s)

SpecAccounts == InitPeriod /\ [][NextAccounts]_vars

\* C18: after any sequence of the account operations the page offers (add,
\* edit, delete), in any sessions, every default account of a company is
\* still in the accounts table with the name and the type it was seeded
\* with, and still marked as default.
C18_DefaultAccountsKept ==
    /\ Len(accounts) >= Len(SeededAccounts)
    /\ \A a \in 1..Len(SeededAccounts) :
          SeededAccounts[a].is_default => accounts[a] = SeededAccounts[a]

\* company A has added an account under the name of a default account and
\* deleted it again, and has renamed its account Rent, which is in use, to
\* Advertising; a session still lists the six default accounts
C18_Witness ==
    /\ Len(accounts) = Len(SeededAccounts) + 1
    /\ accounts[Len(accounts)] = NoAccount
    /\ accounts[RentAccountId].account_name = "Advertising"
    /\ accounts[RentAccountId].account_type = "Expense"
    /\ chart[1].pc = "mounted"
    /\ ~chart[1].fetching
    /\ Cardinality({x \in chart[1].accounts : x.is_default}) = 6
    /\ \E x \in chart[2].accounts :
          x.id = Len(accounts) /\ x.account_name = "Sales" /\ ~x.is_default

(***************************************************************************)
(* SpecCompany: three signed-in users without a company create their       *)
(* company profiles                                                         *)
(***************************************************************************)
InitCompany ==
    /\ invoices = <<>>
    /\ invoice_items = <<>>
    /\ expenses = <<>>
    /\ accounts = <<>>
    /\ company_profiles = <<>>
    /\ invForm = [s \in Sessions |-> IdleInvoiceForm(s)]
    /\ expForm = [s \in Sessions |-> IdleExpenseForm(s)]
    /\ report = Unmounted
    /\ gstReport = GstUnmounted
    /\ chart = [s \in Sessions |-> ChartUnmounted(s)]
    /\ provider = [u \in Users |-> IdleProvider]
    /\ invoiceList = [s \in Sessions |-> InvoicesUnmounted(s)]
    /\ auth = SignedOut
    /\ calc = NoCalc

NextCompany ==
    \E u \in Users :
        \/ createCompanyProfile(u)
        \/ CompanyInsert(u)
        \/ CompanyDefaultAccounts(u)

SpecCompany == InitCompany /\ [][NextCompany]_vars

\* the rows of the accounts table of a company
CompanyAccounts(company) ==
    {a \in 1..Len(accounts) : accounts[a].company_id = company}

\* C19: whenever createCompanyProfile has returned without an error, the
\* new company has exactly the six default accounts, each marked
\* is_default: no company profile is reported as created while its default
\* accounts are missing.
C19_CreatedCompanyHasDefaultAccounts ==
    \A u \in Users :
        provider[u].returned = "created" =>
            /\ Cardinality(CompanyAccounts(provider[u].created)) = 6
            /\ \A k \in 1..6 :
                  \E a \in CompanyAccounts(provider[u].created) :
                      accounts[a] = create_default_accounts(provider[u].created)[k]

(***************************************************************************)
(* SpecTenant: the report pages of company A, while the session of company *)
(* B saves invoices and expenses, marks invoices and keeps its accounts     *)
(***************************************************************************)
MaxTenantRows == 1

\* the session of company B
TenantSession == CHOOSE s \in Sessions : companyProfile(s) = "B"

\* 2 x 100.00 at 18 %, dated within February 2024
TenantInvoiceForms ==
    {[invoice_date |-> 20240215, place_of_supply_type |-> "Intra-State",
      items |-> <<ItemA>>]}

\* 500.00 at 18 %, dated within February 2024, on an Expense account of B
TenantExpenseForms ==
    {WithAccount(data, account) :
        data \in {d \in ReportExpenseForms : d.expense_date = 20240229},
        account \in ExpenseAccountIds("B")}

TenantTodays == {[y |-> 2024, m |-> 2, d |-> 29]}

\* the routes of App: the session shows one page at a time; a page is
\* opened once the page before it is left
OnePage(page) ==
    /\ invForm[TenantSession] = IdleInvoiceForm(TenantSession)
    /\ expForm[TenantSession] = IdleExpenseForm(TenantSession)
    /\ chart[TenantSession].pc = "unmounted"

\* the invoice form is left: after a save by navigate('/invoices'), after a
\* failure by the user; the state of the component is gone
InvoiceFormLeave(s) ==
    /\ invForm[s].pc = "idle"
    /\ invForm[s] # IdleInvoiceForm(s)
    /\ invForm' = [invForm EXCEPT ![s] = IdleInvoiceForm(s)]
    /\ UNCHANGED <<invoices, invoice_items, expenses, accounts, expForm, report, calc,
                   gstReport, chart, company_profiles, provider, invoiceList, auth>>

\* the expense form is left, likewise
ExpenseFormLeave(s) ==
    /\ expForm[s].pc = "idle"
    /\ expForm[s] # IdleExpenseForm(s)
    /\ expForm' = [expForm EXCEPT ![s] = IdleExpenseForm(s)]
    /\ UNCHANGED <<invoices, invoice_items, expenses, accounts, invForm, report, calc,
                   gstReport, chart, company_profiles, provider, invoiceList, auth>>

NextTenant ==
    \/ \E today \in TenantTodays :
          /\ gstReport.pc = "unmounted"
          /\ ReportMount("A", today)
    \/ \E r \in 1..Len(report.runs) :
          \/ ReportSales(r)
          \/ ReportAccounts(r)
          \/ \E k \in 1..Len(report.runs[r].fetched) : ReportExpenseAnswer(r, k)
          \/ ReportExpenses(r)
    \/ ReportUnmount
    \/ \E today \in TenantTodays :
          /\ report.pc = "unmounted"
          /\ GstMount("A", today)
    \/ \E r \in 1..Len(gstReport.runs) :
          \/ GstInvoices(r)
          \/ GstExpenses(r)
    \/ GstUnmount
    \/ \E data \in TenantInvoiceForms :
          /\ OnePage("invoice")
          /\ \/ \E id \in 1..Len(invoices) : InvoiceSubmit(TenantSession, id, data)
             \/ /\ Len(invoices) < Len(SeededInvoices) + MaxTenantRows
                /\ InvoiceSubmit(TenantSession, 0, data)
    \/ InvoiceUpdate(TenantSession)
    \/ InvoiceDeleteItems(TenantSession)
    \/ InvoiceInsertItems(TenantSession)
    \/ InvoiceInsert(TenantSession)
    \/ InvoiceFormLeave(TenantSession)
    \/ \E id \in 1..Len(invoices), status \in {"Sent", "Paid"} :
          /\ OnePage("invoices")
          /\ updateInvoiceStatus("B", id, status)
    \/ \E data \in TenantExpenseForms :
          /\ OnePage("expense")
          /\ \/ \E id \in 1..Len(expenses) : ExpenseSubmit(TenantSession, id, data)
             \/ /\ Len(expenses) < Len(SeededExpenses) + MaxTenantRows
                /\ ExpenseSubmit(TenantSession, 0, data)
    \/ ExpenseSave(TenantSession)
    \/ ExpenseFormLeave(TenantSession)
    \/ OnePage("chart") /\ ChartMount(TenantSession)
    \/ fetchAccounts(TenantSession)
    \/ openModal(TenantSession, NoEditing)
    \/ \E account \in chart[TenantSession].accounts : openModal(TenantSession, account)
    \/ closeModal(TenantSession)
    \/ \E data \in AccountForms :
          /\ chart[TenantSession].editingAccount = NoEditing
                => Len(accounts) < Len(SeededAccounts) + MaxAddedAccounts
          /\ ChartOnSubmit(TenantSession, data)
    \/ \E account \in chart[TenantSession].accounts : deleteAccount(TenantSession, account)
    \/ ChartUnmount(TenantSession)

SpecTenant == InitPeriod /\ [][NextTenant]_vars

\* the rows of company A are those seeded, and no other row is of company A
OwnRowsKept ==
    /\ Len(invoices) >= Len(SeededInvoices)
    /\ Len(expenses) >= Len(SeededExpenses)
    /\ Len(accounts) >= Len(SeededAccounts)
    /\ \A i \in 1..Len(invoices) :
          IF i <= Len(SeededInvoices)
          THEN invoices[i] = SeededInvoices[i] /\ invoice_items[i] = SeededItems[i]
          ELSE invoices[i].company_id # "A"
    /\ \A e \in 1..Len(expenses) :
          IF e <= Len(SeededExpenses)
          THEN expenses[e] = SeededExpenses[e]
          ELSE expenses[e].company_id # "A"
    /\ \A a \in 1..Len(accounts) :
          IF a <= Len(SeededAccounts)
          THEN SeededAccounts[a].company_id = "A" => accounts[a] = SeededAccounts[a]
          ELSE accounts[a].company_id # "A"

\* C20: the Profit & Loss and the GST summary of company A depend on the
\* rows of company A alone: whatever company B creates, edits or deletes
\* (invoices, invoice items, expenses, accounts), the rows of A stay as
\* they are, and every figure a run sets for A is the aggregate over the
\* rows of A of its period.
C20_NoCrossTenantAggregation ==
    /\ [](OwnRowsKept)
    /\ [][\A r \in 1..MaxRuns :
             /\ SalesAnswered(r) =>
                   report'.totalSales =
                       SumOver(invoices, NonDraftInPeriod(report.runs[r]),
                               "sub_total_amount")
             /\ ExpensesShown(r) =>
                   /\ LinesOf(report'.expensesByAccount, report.runs[r])
                   /\ \A k \in 1..Len(report'.expensesByAccount) :
                         accounts[report'.expensesByAccount[k].account.id].company_id = "A"
             /\ GstSummarySet(r) =>
                   gstReport'.summary = SummaryOf(gstReport.runs[r])]_vars

\* company B holds an invoice marked Sent and an expense, both dated within
\* February 2024, and an added account; the Profit & Loss of company A for
\* February 2024 shows 200.00 of sales and the expense lines 400.00 and
\* 100.00, the figures of the rows of A
C20_Witness ==
    /\ \E i \in 1..Len(invoices) :
          /\ invoices[i].company_id = "B"
          /\ invoices[i].status = "Sent"
          /\ invoices[i].invoice_date = 20240215
          /\ Len(invoice_items[i]) = 1
    /\ \E e \in 1..Len(expenses) :
          /\ expenses[e].company_id = "B"
          /\ expenses[e].expense_date = 20240229
    /\ \E a \in 1..Len(accounts) :
          accounts[a].company_id = "B" /\ ~accounts[a].is_default
    /\ report.pc = "mounted"
    /\ report.company = "A"
    /\ report.runs = <<>>
    /\ ~report.loading
    /\ report.totalSales = 20000
    /\ Len(report.expensesByAccount) = 2
    /\ report.expensesByAccount[1].total = 40000
    /\ report.expensesByAccount[2].total = 10000

(***************************************************************************)
(* SpecValidate: a session submits valid and invalid invoice and expense   *)
(* forms                                                                    *)
(***************************************************************************)
MaxValidateRows == 1

\* 0.12 x 0.20 at 18 %; then a quantity of 0, a rate of -0.01, and the GST
\* rates 29 and -1
ValidateItems ==
    <<ItemB,
      [quantity |-> 0, rate |-> 20, gst_rate_percentage |-> 18,
       product_service_id |-> Product],
      [quantity |-> 12, rate |-> 0 - 1, gst_rate_percentage |-> 18,
       product_service_id |-> Product],
      [quantity |-> 12, rate |-> 20, gst_rate_percentage |-> 29,
       product_service_id |-> Product],
      [quantity |-> 12, rate |-> 20, gst_rate_percentage |-> 0 - 1,
       product_service_id |-> Product]>>

ValidateInvoiceForms ==
    {[invoice_date |-> 20240215, place_of_supply_type |-> "Intra-State", items |-> items] :
        items \in {<<>>, <<ValidateItems[1], ValidateItems[4]>>}
                    \cup {<<ValidateItems[k]>> : k \in 1..Len(ValidateItems)}}

\* 1.00 and -0.01; the rates 18, 29 and -1; an account chosen or not
ValidateExpenseForms ==
    [amount_before_gst : {100, 0 - 1},
     gst_rate_applied_on_purchase : {18, 29, 0 - 1},
     place_of_supply_type_for_purchase : {"Intra-State"},
     expense_date : {20240215},
     expense_account_id : {0, DefaultExpenseAccount("A")}]

NextValidate ==
    \/ \E data \in ValidateInvoiceForms :
          \/ \E id \in 1..Len(invoices) : InvoiceHandleSubmit(1, id, data)
          \/ /\ Len(invoices) < MaxValidateRows
             /\ InvoiceHandleSubmit(1, 0, data)
    \/ InvoiceUpdate(1)
    \/ InvoiceDeleteItems(1)
    \/ InvoiceInsertItems(1)
    \/ InvoiceInsert(1)
    \/ \E data \in ValidateExpenseForms :
          \/ \E id \in 1..Len(expenses) : ExpenseHandleSubmit(1, id, data)
          \/ /\ Len(expenses) < MaxValidateRows
             /\ ExpenseHandleSubmit(1, 0, data)
    \/ ExpenseSave(1)

SpecValidate == Init /\ [][NextValidate]_vars

\* an item, as entered or as stored, that the schema of the invoice form lets pass
ItemWithinSchema(item) ==
    /\ item.quantity >= 1
    /\ item.rate >= 0
    /\ item.gst_rate_percentage \in 0..28

\* C21: a save with invalid input (no item, a quantity below 0.01, a
\* negative rate, a GST rate outside [0, 28]; an expense with a negative
\* amount or a GST rate outside [0, 28]) is rejected before anything is
\* computed: the form stays as it was but for the errors, no row of
\* invoices, invoice_items or expenses is written or changed by it, and so
\* no save in flight and no stored row ever holds such input.
C21_InvalidInputIsRejected ==
    /\ [](\A s \in Sessions :
            /\ invForm[s].pc # "idle" =>
                  /\ Len(invForm[s].items) >= 1
                  /\ \A i \in 1..Len(invForm[s].items) :
                        ItemWithinSchema(invForm[s].items[i])
            /\ expForm[s].pc # "idle" =>
                  /\ expForm[s].expenseData.amount_before_gst >= 0
                  /\ expForm[s].expenseData.gst_rate_applied_on_purchase \in 0..28)
    /\ [](\A i \in 1..Len(invoice_items) : \A j \in 1..Len(invoice_items[i]) :
            ItemWithinSchema(invoice_items[i][j]))
    /\ [](\A e \in 1..Len(expenses) :
            /\ expenses[e].amount_before_gst >= 0
            /\ expenses[e].gst_rate_applied_on_purchase \in 0..28
            /\ expenses[e].expense_account_id # 0)
    /\ [][\A s \in Sessions :
            /\ (invForm'[s].outcome = "rejected" /\ invForm'[s] # invForm[s]) =>
                  /\ invForm' = [invForm EXCEPT ![s].outcome = "rejected"]
                  /\ UNCHANGED <<invoices, invoice_items, expenses>>
            /\ (expForm'[s].outcome = "rejected" /\ expForm'[s] # expForm[s]) =>
                  /\ expForm' = [expForm EXCEPT ![s].outcome = "rejected"]
                  /\ UNCHANGED <<invoices, invoice_items, expenses>>]_vars

\* an invoice with its item and an expense have been saved, and then an
\* invalid invoice form and an invalid expense form were submitted and
\* rejected
C21_Witness ==
    /\ Len(invoices) = 1
    /\ Len(invoice_items[1]) = 1
    /\ Len(expenses) = 1
    /\ invForm[1].outcome = "rejected"
    /\ invForm[1].pc = "idle"
    /\ expForm[1].outcome = "rejected"
    /\ expForm[1].pc = "idle"

(***************************************************************************)
(* SpecSubmit: the submits of SpecValidate, where every storage call that   *)
(* was sent is answered, by a result or by an error                        *)
(***************************************************************************)
SpecSubmit ==
    /\ Init
    /\ [][NextValidate]_vars
    /\ WF_vars(InvoiceUpdate(1))
    /\ WF_vars(InvoiceDeleteItems(1))
    /\ WF_vars(InvoiceInsertItems(1))
    /\ WF_vars(InvoiceInsert(1))
    /\ WF_vars(ExpenseSave(1))

\* the storage calls of one save of the invoice form, in their order
SaveCalls == {<<"update", "delete", "insert">>, <<"insertInvoice", "insert">>}

IsPrefix(a, b) == Len(a) <= Len(b) /\ SubSeq(b, 1, Len(a)) = a

NextStatus ==
    \E s \in AccountSessions :
        \/ InvoicesMount(s)
        \/ fetchInvoices(s)
        \/ \E invoiceId \in 1..Len(invoices), status \in {"Sent", "Paid"} :
              InvoicesUpdateStatus(s, invoiceId, status)
        \/ InvoicesUnmount(s)

SpecStatus == InitPeriod /\ [][NextStatus]_vars

\* C23: the status of an invoice only advances, Draft to Sent and Sent to
\* Paid: no step takes it backwards, from Draft to Paid at once, or to
\* Overdue, whatever the sessions list when their buttons are clicked.
C23_StatusOnlyAdvances ==
    [][\A i \in 1..Len(invoices) :
          \/ invoices'[i].status = invoices[i].status
          \/ invoices[i].status = "Draft" /\ invoices'[i].status = "Sent"
          \/ invoices[i].status = "Sent" /\ invoices'[i].status = "Paid"]_vars

(***************************************************************************)
(* SpecEdit: a session of company A creates and edits invoices, the seeded *)
(* Sent and Draft ones included, while the other session marks them        *)
(***************************************************************************)
MaxEditRows == 1

\* one item of 0.12 x 0.20 at 18 %, Inter-State
EditForms == {data \in SaveForms : data.items = <<ItemB>>}

NextEdit ==
    \/ \E data \in EditForms :
          \/ \E id \in 1..Len(invoices) : InvoiceHandleSubmit(1, id, data)
          \/ /\ Len(invoices) < Len(SeededInvoices) + MaxEditRows
             /\ InvoiceHandleSubmit(1, 0, data)
    \/ InvoiceUpdate(1)
    \/ InvoiceDeleteItems(1)
    \/ InvoiceInsertItems(1)
    \/ InvoiceInsert(1)
    \/ InvoiceFormLeave(1)
    \/ InvoicesMount(2)
    \/ fetchInvoices(2)
    \/ \E invoiceId \in 1..Len(invoices), status \in {"Sent", "Paid"} :
          InvoicesUpdateStatus(2, invoiceId, status)
    \/ InvoicesUnmount(2)

SpecEdit == InitPeriod /\ [][NextEdit]_vars

\* C24: an invoice is a Draft when it is created, and every step of a save
\* of the invoice form leaves the status and the company_id of every
\* invoice as they are: the status changes in steps of updateInvoiceStatus
\* alone, so an edited Sent or Paid invoice holds new totals and items and
\* is still Sent or Paid.
C24_EditKeepsStatus ==
    [][/\ Len(invoices') >= Len(invoices)
       /\ \A i \in 1..Len(invoices') :
             IF i > Len(invoices)
             THEN invoices'[i].status = "Draft"
             ELSE /\ invoices'[i].company_id = invoices[i].company_id
                  /\ invoices'[i].status # invoices[i].status =>
                        /\ invForm' = invForm
                        /\ invoice_items' = invoice_items
                        /\ invoiceList' # invoiceList
                        /\ invoices' = [invoices EXCEPT ![i].status = invoices'[i].status]]_vars

\* the seeded Sent invoice of 200.00 has been marked Paid and then edited
\* to one item of 0.12 x 0.20: it holds the new totals and item, and is Paid
C24_Witness ==
    /\ invoices[1].status = "Paid"
    /\ invoices[1].sub_total_amount = 2
    /\ Len(invoice_items[1]) = 1
    /\ invoice_items[1][1].quantity = 12
    /\ invForm[1].outcome = "saved"
    /\ invForm[1].id = 1

(***************************************************************************)
(* SpecManual: invoices whose item names a product or was entered manually *)
(***************************************************************************)
MaxManualRows == 2

\* 0.12 x 0.20 at 18 %, of a product and entered manually; the two together
ManualForms ==
    {[invoice_date |-> 20240215, place_of_supply_type |-> "Intra-State", items |-> items] :
        items \in {<<ItemB>>,
                   <<[ItemB EXCEPT !.product_service_id = EnterManually]>>,
                   <<ItemB, [ItemB EXCEPT !.product_service_id = EnterManually]>>}}

NextManual ==
    \/ \E data \in ManualForms :
          \/ \E id \in 1..Len(invoices) : InvoiceHandleSubmit(1, id, data)
          \/ /\ Len(invoices) < MaxManualRows
             /\ InvoiceHandleSubmit(1, 0, data)
    \/ InvoiceUpdate(1)
    \/ InvoiceDeleteItems(1)
    \/ InvoiceInsertItems(1)
    \/ InvoiceInsert(1)
    \/ InvoiceFormLeave(1)

SpecManual == Init /\ [][NextManual]_vars

\* C25: a save of an invoice with an item entered manually hands the
\* product_service_id column no value that the column rejects, so that the
\* insert of the items is open to it as it is to an item of a product:
\* whenever a form is about to insert its items, every product_service_id
\* it sends is accepted by the uuid column.
C25_ManualItemIsAccepted ==
    \A s \in Sessions :
        invForm[s].pc = "insertItems" =>
            \A i \in 1..Len(invForm[s].items) :
                UuidAccepted(invForm[s].items[i].product_service_id)

(***************************************************************************)
(* Overlapping fetches of a report page (SpecPeriod)                       *)
(***************************************************************************)
\* C26: on both report pages, the step in which the last fetch in flight
\* sets its results leaves the page showing the totals of the period the
\* page displays, in whatever order the answers of overlapping fetches
\* arrive; and loading is true as long as a fetch is in flight.
C26_SettledPageShowsItsPeriod ==
    /\ [](report.pc = "mounted" /\ report.runs # <<>> => report.loading)
    /\ [](gstReport.pc = "mounted" /\ gstReport.runs # <<>> => gstReport.loading)
    /\ [][/\ (ExpensesShown(1) /\ report'.runs = <<>>) =>
               /\ ~report'.loading
               /\ report'.totalSales =
                     SumOver(invoices, NonDraftInPeriod(PeriodOf(report')),
                             "sub_total_amount")
               /\ LinesOf(report'.expensesByAccount, PeriodOf(report'))
          /\ (GstSummarySet(1) /\ gstReport'.runs = <<>>) =>
               /\ ~gstReport'.loading
               /\ gstReport'.summary = SummaryOf(PeriodOf(gstReport'))]_vars

(***************************************************************************)
(* SpecLoad: the Profit & Loss page, one load at a time (Previous and Next *)
(* are clicked once the load under way is over); any query may fail        *)
(***************************************************************************)
NextLoad ==
    \/ \E today \in PeriodTodays : ReportMount("A", today)
    \/ /\ report.runs = <<>>
       /\ MonthBefore(report.startDate) \in PeriodMonths
       /\ previousMonth
    \/ /\ report.runs = <<>>
       /\ MonthAfter(report.startDate) \in PeriodMonths
       /\ nextMonth
    \/ \E r \in 1..Len(report.runs) :
          \/ ReportSales(r)
          \/ ReportAccounts(r)
          \/ \E k \in 1..Len(report.runs[r].fetched) : ReportExpenseAnswer(r, k)
          \/ ReportExpenses(r)
    \/ ReportUnmount

SpecLoad == InitPeriod /\ [][NextLoad]_vars

\* the period of a calendar month
MonthPeriod(month) ==
    [startDate |-> startOfMonth([y |-> month.y, m |-> month.m, d |-> 1]),
     endDate |-> endOfMonth([y |-> month.y, m |-> month.m, d |-> 1])]

\* C27: a load of the Profit & Loss in which a query fails leaves
\* totalSales and the expense lines as they were before the load, so that
\* once a load is over the page shows what it showed when it was mounted,
\* or the totalSales and the expense lines of one and the same period:
\* netProfit is never the sales of one period less the expenses of another.
C27_FailedLoadKeepsTotalsTogether ==
    (report.pc = "mounted" /\ report.runs = <<>>) =>
        \/ report.totalSales = 0 /\ report.expensesByAccount = <<>>
        \/ \E month \in PeriodMonths :
              /\ report.totalSales =
                    SumOver(invoices, NonDraftInPeriod(MonthPeriod(month)),
                            "sub_total_amount")
              /\ LinesOf(report.expensesByAccount, MonthPeriod(month))

(***************************************************************************)
(* The expenses of the two reports (SpecAccounts)                          *)
(***************************************************************************)
\* the total expenses of the Profit & Loss for a company and a period: the
\* answers of the expenses queries of the accounts of the accounts query,
\* summed (an expense is tagged to one account, so no row is met twice)
ProfitLossExpenses(company, period) ==
    SumOver(expenses,
            UNION {ExpensesQuery(company, account, period.startDate, period.endDate) :
                      account \in ExpenseAccountIds(company)},
            "amount_before_gst")

\* the purchases taxable value of the GST summary for a company and period
GstPurchasesTaxableValue(company, period) ==
    SumOver(expenses,
            GstExpensesQuery(company, period.startDate, period.endDate),
            "amount_before_gst")

\* C28: for the same company and period, the total expenses of the Profit
\* & Loss, summed account by account over the Expense accounts, equal the
\* purchases taxable value of the GST summary, the sum over all in-range
\* expenses, after any adds, edits and deletes of accounts.
C28_ReportsAgreeOnExpenses ==
    \A company \in {"A", "B"}, month \in PeriodMonths :
        ProfitLossExpenses(company, MonthPeriod(month))
            = GstPurchasesTaxableValue(company, MonthPeriod(month))

(***************************************************************************)
(* SpecReference: one session of company A adds and deletes accounts while *)
(* the other creates and edits expenses                                    *)
(***************************************************************************)
MaxReferenceRows == 1

\* 500.00 at 18 %, on an Expense account of the company
ReferenceForms ==
    {WithAccount(data, account) :
        data \in {d \in ReportExpenseForms : d.expense_date = 20240229},
        account \in ExpenseAccountIds("A")}

NextReference ==
    \/ ChartMount(1)
    \/ fetchAccounts(1)
    \/ openModal(1, NoEditing)
    \/ \E data \in {d \in AccountForms : d.account_type = "Expense"} :
          /\ chart[1].editingAccount = NoEditing
          /\ Len(accounts) < Len(SeededAccounts) + MaxAddedAccounts
          /\ ChartOnSubmit(1, data)
    \/ \E account \in chart[1].accounts : deleteAccount(1, account)
    \/ \E data \in ReferenceForms :
          \/ \E id \in 1..Len(expenses) :
                /\ expenses[id].company_id = "A"
                /\ ExpenseHandleSubmit(2, id, data)
          \/ /\ Len(expenses) < Len(SeededExpenses) + MaxReferenceRows
             /\ ExpenseHandleSubmit(2, 0, data)
    \/ ExpenseSave(2)
    \/ ExpenseFormLeave(2)

SpecReference == InitPeriod /\ [][NextReference]_vars

\* C29: every stored expense references an account that is in the accounts
\* table; a step that deletes an account deletes one that no expense
\* references and that is not a default account, and leaves every other
\* account and all the expenses as they are.
C29_ExpensesReferenceAccounts ==
    /\ [](\A e \in 1..Len(expenses) :
             /\ expenses[e].expense_account_id \in 1..Len(accounts)
             /\ accounts[expenses[e].expense_account_id] # NoAccount)
    /\ [][\A a \in 1..Len(accounts) :
             (accounts[a] # NoAccount /\ accounts'[a] = NoAccount) =>
                 /\ \A e \in 1..Len(expenses) : expenses[e].expense_account_id # a
                 /\ ~accounts[a].is_default
                 /\ accounts' = [accounts EXCEPT ![a] = NoAccount]
                 /\ expenses' = expenses]_vars

\* the account Advertising, added and used by no expense, has been deleted
\* while an expense form held it as the account chosen, and the save of
\* that expense has failed; Rent, in use and listed with its Delete button,
\* is still there
C29_Witness ==
    /\ Len(accounts) = Len(SeededAccounts) + 1
    /\ accounts[Len(accounts)] = NoAccount
    /\ expForm[2].outcome = "failed"
    /\ expForm[2].expenseData.expense_account_id = Len(accounts)
    /\ accounts[RentAccountId] # NoAccount
    /\ \E e \in 1..Len(expenses) : expenses[e].expense_account_id = RentAccountId
    /\ \E x \in chart[1].accounts : x.id = RentAccountId /\ DeleteEnabled(x)

(***************************************************************************)
(* SpecAuth: users sign in and out in one browser while the calls that     *)
(* load their company profiles answer in any order                         *)
(***************************************************************************)
NextAuth ==
    \/ \E u \in Users : AuthSignIn(u)
    \/ signOut
    \/ \E k \in 1..MaxFetches : loadCompanyProfile(k)

SpecAuth == Init /\ [][NextAuth]_vars

\* C30: in every state of the providers a companyProfile that is not null
\* is the profile of the user signed in, and with no user signed in
\* companyProfile is null, also while a call that loads the profile of an
\* earlier user is under way at the sign-out or at the change of user.
C30_ProfileBelongsToUser ==
    auth.companyProfile # NoProfile =>
        /\ auth.user # NoUser
        /\ auth.companyProfile.user_id = auth.user

====
